---- MODULE Spec2Model ----
(***************************************************************************)
(* picozip: a streaming writer of uncompressed ZIP archives (picozip.h).   *)
(* The model follows one picozip_file session: its write offset, its       *)
(* ledger of entries, the bytes its write callback has accepted, and the   *)
(* calls made on it.  Bytes are numbers 0..255; a 32-bit word is the tuple *)
(* of its four bytes, least significant first (TLC's integers are signed   *)
(* 32-bit, so a uint32_t such as a CRC does not fit one integer).          *)
(***************************************************************************)
EXTENDS Integers, Sequences, FiniteSets, TLC

(* ---------------------------------------------------------------------- *)
(* Bounds of the model                                                     *)
(* ---------------------------------------------------------------------- *)
\* entries the ledger holds at most (file->num_entries)
MaxEntries == 2
\* picozip_end_ex calls that pass the argument check
MaxEnds == 2

(* ---------------------------------------------------------------------- *)
(* Program constants                                                       *)
(* ---------------------------------------------------------------------- *)
PICOZIP_READ_BUF == 2048
PICOZIP_OK == 0
PICOZIP_EINVAL == 22
PICOZIP_ENOMEM == 12
PICOZIP_EIO == 5
PICOZIP__LOCAL_MAGIC == <<\H50, \H4b, \H03, \H04>>
PICOZIP__CENTRAL_MAGIC == <<\H50, \H4b, \H01, \H02>>
PICOZIP__EOCD_MAGIC == <<\H50, \H4b, \H05, \H06>>
PICOZIP__MIN_VERSION == \H14
PICOZIP__TIMESTAMP_MAGIC == \H5455
PICOZIP__DATADESC_MAGIC == <<\H50, \H4b, \H07, \H08>>
PICOZIP__FLAG_DATADESC == 8
PICOZIP__LOCAL_HEADER_SIZE == 30
PICOZIP__CD_HEADER_SIZE == 46
PICOZIP__EOCD_SIZE == 22
PICOZIP__ATTR_SIZE == 4
PICOZIP__LOCAL_TIMESTAMP_SIZE == 5
PICOZIP__DATADESC_SIZE == 16
\* sizeof(picozip__entry *)
PtrSize == 8

(* ---------------------------------------------------------------------- *)
(* Fixed-width integers and little-endian encoding                         *)
(* ---------------------------------------------------------------------- *)
\* (uint8_t) v
U8(v) == v % 256

\* (uint16_t) v
U16(v) == v % 65536

\* PICOZIP__WRITE_LE16: the two bytes of V, low byte first
WRITE_LE16(v) == <<U8(v), U8(v \div 256)>>

\* PICOZIP__WRITE_LE32 of a value held in one integer (sizes, offsets, times)
WRITE_LE32(v) == <<U8(v), U8(v \div 256), U8(v \div 65536), U8(v \div 16777216)>>

RECURSIVE XorBits(_, _, _)
\* a ^ b on the low n bits
XorBits(a, b, n) ==
    IF n = 0 THEN 0
    ELSE ((a + b) % 2) + 2 * XorBits(a \div 2, b \div 2, n - 1)

\* a ^ b for every pair of 4-bit values
XorNibbles == [a \in 0 .. 15 |-> [b \in 0 .. 15 |-> XorBits(a, b, 4)]]

\* a ^ b on bytes
Xor8(a, b) == 16 * XorNibbles[a \div 16][b \div 16] + XorNibbles[a % 16][b % 16]

\* a ^ b on 32-bit words
Xor32(a, b) == <<Xor8(a[1], b[1]), Xor8(a[2], b[2]), Xor8(a[3], b[3]), Xor8(a[4], b[4])>>

\* w ^ 0xFFFFFFFF, which is also ~w
Not32(w) == <<255 - w[1], 255 - w[2], 255 - w[3], 255 - w[4]>>

\* w >> 8
Shr8(w) == <<w[2], w[3], w[4], 0>>

\* the word 0
Zero32 == <<0, 0, 0, 0>>

(* ---------------------------------------------------------------------- *)
(* picozip__crc32                                                          *)
(* ---------------------------------------------------------------------- *)
PICOZIP__CRC_START == Zero32

\* s_crc_table, each word as its bytes, least significant first
s_crc_table == <<
    <<\H00, \H00, \H00, \H00>>, <<\H96, \H30, \H07, \H77>>, <<\H2C, \H61, \H0E, \HEE>>, <<\HBA, \H51, \H09, \H99>>,
    <<\H19, \HC4, \H6D, \H07>>, <<\H8F, \HF4, \H6A, \H70>>, <<\H35, \HA5, \H63, \HE9>>, <<\HA3, \H95, \H64, \H9E>>,
    <<\H32, \H88, \HDB, \H0E>>, <<\HA4, \HB8, \HDC, \H79>>, <<\H1E, \HE9, \HD5, \HE0>>, <<\H88, \HD9, \HD2, \H97>>,
    <<\H2B, \H4C, \HB6, \H09>>, <<\HBD, \H7C, \HB1, \H7E>>, <<\H07, \H2D, \HB8, \HE7>>, <<\H91, \H1D, \HBF, \H90>>,
    <<\H64, \H10, \HB7, \H1D>>, <<\HF2, \H20, \HB0, \H6A>>, <<\H48, \H71, \HB9, \HF3>>, <<\HDE, \H41, \HBE, \H84>>,
    <<\H7D, \HD4, \HDA, \H1A>>, <<\HEB, \HE4, \HDD, \H6D>>, <<\H51, \HB5, \HD4, \HF4>>, <<\HC7, \H85, \HD3, \H83>>,
    <<\H56, \H98, \H6C, \H13>>, <<\HC0, \HA8, \H6B, \H64>>, <<\H7A, \HF9, \H62, \HFD>>, <<\HEC, \HC9, \H65, \H8A>>,
    <<\H4F, \H5C, \H01, \H14>>, <<\HD9, \H6C, \H06, \H63>>, <<\H63, \H3D, \H0F, \HFA>>, <<\HF5, \H0D, \H08, \H8D>>,
    <<\HC8, \H20, \H6E, \H3B>>, <<\H5E, \H10, \H69, \H4C>>, <<\HE4, \H41, \H60, \HD5>>, <<\H72, \H71, \H67, \HA2>>,
    <<\HD1, \HE4, \H03, \H3C>>, <<\H47, \HD4, \H04, \H4B>>, <<\HFD, \H85, \H0D, \HD2>>, <<\H6B, \HB5, \H0A, \HA5>>,
    <<\HFA, \HA8, \HB5, \H35>>, <<\H6C, \H98, \HB2, \H42>>, <<\HD6, \HC9, \HBB, \HDB>>, <<\H40, \HF9, \HBC, \HAC>>,
    <<\HE3, \H6C, \HD8, \H32>>, <<\H75, \H5C, \HDF, \H45>>, <<\HCF, \H0D, \HD6, \HDC>>, <<\H59, \H3D, \HD1, \HAB>>,
    <<\HAC, \H30, \HD9, \H26>>, <<\H3A, \H00, \HDE, \H51>>, <<\H80, \H51, \HD7, \HC8>>, <<\H16, \H61, \HD0, \HBF>>,
    <<\HB5, \HF4, \HB4, \H21>>, <<\H23, \HC4, \HB3, \H56>>, <<\H99, \H95, \HBA, \HCF>>, <<\H0F, \HA5, \HBD, \HB8>>,
    <<\H9E, \HB8, \H02, \H28>>, <<\H08, \H88, \H05, \H5F>>, <<\HB2, \HD9, \H0C, \HC6>>, <<\H24, \HE9, \H0B, \HB1>>,
    <<\H87, \H7C, \H6F, \H2F>>, <<\H11, \H4C, \H68, \H58>>, <<\HAB, \H1D, \H61, \HC1>>, <<\H3D, \H2D, \H66, \HB6>>,
    <<\H90, \H41, \HDC, \H76>>, <<\H06, \H71, \HDB, \H01>>, <<\HBC, \H20, \HD2, \H98>>, <<\H2A, \H10, \HD5, \HEF>>,
    <<\H89, \H85, \HB1, \H71>>, <<\H1F, \HB5, \HB6, \H06>>, <<\HA5, \HE4, \HBF, \H9F>>, <<\H33, \HD4, \HB8, \HE8>>,
    <<\HA2, \HC9, \H07, \H78>>, <<\H34, \HF9, \H00, \H0F>>, <<\H8E, \HA8, \H09, \H96>>, <<\H18, \H98, \H0E, \HE1>>,
    <<\HBB, \H0D, \H6A, \H7F>>, <<\H2D, \H3D, \H6D, \H08>>, <<\H97, \H6C, \H64, \H91>>, <<\H01, \H5C, \H63, \HE6>>,
    <<\HF4, \H51, \H6B, \H6B>>, <<\H62, \H61, \H6C, \H1C>>, <<\HD8, \H30, \H65, \H85>>, <<\H4E, \H00, \H62, \HF2>>,
    <<\HED, \H95, \H06, \H6C>>, <<\H7B, \HA5, \H01, \H1B>>, <<\HC1, \HF4, \H08, \H82>>, <<\H57, \HC4, \H0F, \HF5>>,
    <<\HC6, \HD9, \HB0, \H65>>, <<\H50, \HE9, \HB7, \H12>>, <<\HEA, \HB8, \HBE, \H8B>>, <<\H7C, \H88, \HB9, \HFC>>,
    <<\HDF, \H1D, \HDD, \H62>>, <<\H49, \H2D, \HDA, \H15>>, <<\HF3, \H7C, \HD3, \H8C>>, <<\H65, \H4C, \HD4, \HFB>>,
    <<\H58, \H61, \HB2, \H4D>>, <<\HCE, \H51, \HB5, \H3A>>, <<\H74, \H00, \HBC, \HA3>>, <<\HE2, \H30, \HBB, \HD4>>,
    <<\H41, \HA5, \HDF, \H4A>>, <<\HD7, \H95, \HD8, \H3D>>, <<\H6D, \HC4, \HD1, \HA4>>, <<\HFB, \HF4, \HD6, \HD3>>,
    <<\H6A, \HE9, \H69, \H43>>, <<\HFC, \HD9, \H6E, \H34>>, <<\H46, \H88, \H67, \HAD>>, <<\HD0, \HB8, \H60, \HDA>>,
    <<\H73, \H2D, \H04, \H44>>, <<\HE5, \H1D, \H03, \H33>>, <<\H5F, \H4C, \H0A, \HAA>>, <<\HC9, \H7C, \H0D, \HDD>>,
    <<\H3C, \H71, \H05, \H50>>, <<\HAA, \H41, \H02, \H27>>, <<\H10, \H10, \H0B, \HBE>>, <<\H86, \H20, \H0C, \HC9>>,
    <<\H25, \HB5, \H68, \H57>>, <<\HB3, \H85, \H6F, \H20>>, <<\H09, \HD4, \H66, \HB9>>, <<\H9F, \HE4, \H61, \HCE>>,
    <<\H0E, \HF9, \HDE, \H5E>>, <<\H98, \HC9, \HD9, \H29>>, <<\H22, \H98, \HD0, \HB0>>, <<\HB4, \HA8, \HD7, \HC7>>,
    <<\H17, \H3D, \HB3, \H59>>, <<\H81, \H0D, \HB4, \H2E>>, <<\H3B, \H5C, \HBD, \HB7>>, <<\HAD, \H6C, \HBA, \HC0>>,
    <<\H20, \H83, \HB8, \HED>>, <<\HB6, \HB3, \HBF, \H9A>>, <<\H0C, \HE2, \HB6, \H03>>, <<\H9A, \HD2, \HB1, \H74>>,
    <<\H39, \H47, \HD5, \HEA>>, <<\HAF, \H77, \HD2, \H9D>>, <<\H15, \H26, \HDB, \H04>>, <<\H83, \H16, \HDC, \H73>>,
    <<\H12, \H0B, \H63, \HE3>>, <<\H84, \H3B, \H64, \H94>>, <<\H3E, \H6A, \H6D, \H0D>>, <<\HA8, \H5A, \H6A, \H7A>>,
    <<\H0B, \HCF, \H0E, \HE4>>, <<\H9D, \HFF, \H09, \H93>>, <<\H27, \HAE, \H00, \H0A>>, <<\HB1, \H9E, \H07, \H7D>>,
    <<\H44, \H93, \H0F, \HF0>>, <<\HD2, \HA3, \H08, \H87>>, <<\H68, \HF2, \H01, \H1E>>, <<\HFE, \HC2, \H06, \H69>>,
    <<\H5D, \H57, \H62, \HF7>>, <<\HCB, \H67, \H65, \H80>>, <<\H71, \H36, \H6C, \H19>>, <<\HE7, \H06, \H6B, \H6E>>,
    <<\H76, \H1B, \HD4, \HFE>>, <<\HE0, \H2B, \HD3, \H89>>, <<\H5A, \H7A, \HDA, \H10>>, <<\HCC, \H4A, \HDD, \H67>>,
    <<\H6F, \HDF, \HB9, \HF9>>, <<\HF9, \HEF, \HBE, \H8E>>, <<\H43, \HBE, \HB7, \H17>>, <<\HD5, \H8E, \HB0, \H60>>,
    <<\HE8, \HA3, \HD6, \HD6>>, <<\H7E, \H93, \HD1, \HA1>>, <<\HC4, \HC2, \HD8, \H38>>, <<\H52, \HF2, \HDF, \H4F>>,
    <<\HF1, \H67, \HBB, \HD1>>, <<\H67, \H57, \HBC, \HA6>>, <<\HDD, \H06, \HB5, \H3F>>, <<\H4B, \H36, \HB2, \H48>>,
    <<\HDA, \H2B, \H0D, \HD8>>, <<\H4C, \H1B, \H0A, \HAF>>, <<\HF6, \H4A, \H03, \H36>>, <<\H60, \H7A, \H04, \H41>>,
    <<\HC3, \HEF, \H60, \HDF>>, <<\H55, \HDF, \H67, \HA8>>, <<\HEF, \H8E, \H6E, \H31>>, <<\H79, \HBE, \H69, \H46>>,
    <<\H8C, \HB3, \H61, \HCB>>, <<\H1A, \H83, \H66, \HBC>>, <<\HA0, \HD2, \H6F, \H25>>, <<\H36, \HE2, \H68, \H52>>,
    <<\H95, \H77, \H0C, \HCC>>, <<\H03, \H47, \H0B, \HBB>>, <<\HB9, \H16, \H02, \H22>>, <<\H2F, \H26, \H05, \H55>>,
    <<\HBE, \H3B, \HBA, \HC5>>, <<\H28, \H0B, \HBD, \HB2>>, <<\H92, \H5A, \HB4, \H2B>>, <<\H04, \H6A, \HB3, \H5C>>,
    <<\HA7, \HFF, \HD7, \HC2>>, <<\H31, \HCF, \HD0, \HB5>>, <<\H8B, \H9E, \HD9, \H2C>>, <<\H1D, \HAE, \HDE, \H5B>>,
    <<\HB0, \HC2, \H64, \H9B>>, <<\H26, \HF2, \H63, \HEC>>, <<\H9C, \HA3, \H6A, \H75>>, <<\H0A, \H93, \H6D, \H02>>,
    <<\HA9, \H06, \H09, \H9C>>, <<\H3F, \H36, \H0E, \HEB>>, <<\H85, \H67, \H07, \H72>>, <<\H13, \H57, \H00, \H05>>,
    <<\H82, \H4A, \HBF, \H95>>, <<\H14, \H7A, \HB8, \HE2>>, <<\HAE, \H2B, \HB1, \H7B>>, <<\H38, \H1B, \HB6, \H0C>>,
    <<\H9B, \H8E, \HD2, \H92>>, <<\H0D, \HBE, \HD5, \HE5>>, <<\HB7, \HEF, \HDC, \H7C>>, <<\H21, \HDF, \HDB, \H0B>>,
    <<\HD4, \HD2, \HD3, \H86>>, <<\H42, \HE2, \HD4, \HF1>>, <<\HF8, \HB3, \HDD, \H68>>, <<\H6E, \H83, \HDA, \H1F>>,
    <<\HCD, \H16, \HBE, \H81>>, <<\H5B, \H26, \HB9, \HF6>>, <<\HE1, \H77, \HB0, \H6F>>, <<\H77, \H47, \HB7, \H18>>,
    <<\HE6, \H5A, \H08, \H88>>, <<\H70, \H6A, \H0F, \HFF>>, <<\HCA, \H3B, \H06, \H66>>, <<\H5C, \H0B, \H01, \H11>>,
    <<\HFF, \H9E, \H65, \H8F>>, <<\H69, \HAE, \H62, \HF8>>, <<\HD3, \HFF, \H6B, \H61>>, <<\H45, \HCF, \H6C, \H16>>,
    <<\H78, \HE2, \H0A, \HA0>>, <<\HEE, \HD2, \H0D, \HD7>>, <<\H54, \H83, \H04, \H4E>>, <<\HC2, \HB3, \H03, \H39>>,
    <<\H61, \H26, \H67, \HA7>>, <<\HF7, \H16, \H60, \HD0>>, <<\H4D, \H47, \H69, \H49>>, <<\HDB, \H77, \H6E, \H3E>>,
    <<\H4A, \H6A, \HD1, \HAE>>, <<\HDC, \H5A, \HD6, \HD9>>, <<\H66, \H0B, \HDF, \H40>>, <<\HF0, \H3B, \HD8, \H37>>,
    <<\H53, \HAE, \HBC, \HA9>>, <<\HC5, \H9E, \HBB, \HDE>>, <<\H7F, \HCF, \HB2, \H47>>, <<\HE9, \HFF, \HB5, \H30>>,
    <<\H1C, \HF2, \HBD, \HBD>>, <<\H8A, \HC2, \HBA, \HCA>>, <<\H30, \H93, \HB3, \H53>>, <<\HA6, \HA3, \HB4, \H24>>,
    <<\H05, \H36, \HD0, \HBA>>, <<\H93, \H06, \HD7, \HCD>>, <<\H29, \H57, \HDE, \H54>>, <<\HBF, \H67, \HD9, \H23>>,
    <<\H2E, \H7A, \H66, \HB3>>, <<\HB8, \H4A, \H61, \HC4>>, <<\H02, \H1B, \H68, \H5D>>, <<\H94, \H2B, \H6F, \H2A>>,
    <<\H37, \HBE, \H0B, \HB4>>, <<\HA1, \H8E, \H0C, \HC3>>, <<\H1B, \HDF, \H05, \H5A>>, <<\H8D, \HEF, \H02, \H2D>> >>

\* crc32 = (crc32 >> 8) ^ s_crc_table[(crc32 ^ ptr[0]) & 0xFF]
CrcByte(crc32, byte) == Xor32(Shr8(crc32), s_crc_table[Xor8(crc32[1], byte) + 1])

RECURSIVE CrcTail(_, _)
\* while (buf_len) { one byte }
CrcTail(crc32, ptr) ==
    IF Len(ptr) = 0 THEN crc32
    ELSE CrcTail(CrcByte(crc32, ptr[1]), Tail(ptr))

RECURSIVE CrcQuads(_, _)
\* while (buf_len >= 4) { four bytes }, then the tail loop
CrcQuads(crc32, ptr) ==
    IF Len(ptr) >= 4
    THEN CrcQuads(CrcByte(CrcByte(CrcByte(CrcByte(crc32, ptr[1]), ptr[2]), ptr[3]), ptr[4]),
                  SubSeq(ptr, 5, Len(ptr)))
    ELSE CrcTail(crc32, ptr)

RECURSIVE CrcLoops(_, _)
\* the two loops over a buffer of any length: a long buffer is taken in two
\* stretches, the first a whole number of quads, so that the loops run over it as
\* they run over the whole; crc32 is a 4-byte word at every step
CrcLoops(crc32, ptr) ==
    IF Len(crc32) = 4 /\ Len(ptr) <= 8 THEN CrcQuads(crc32, ptr)
    ELSE CrcLoops(CrcLoops(crc32, SubSeq(ptr, 1, 4 * (Len(ptr) \div 8))),
                  SubSeq(ptr, 4 * (Len(ptr) \div 8) + 1, Len(ptr)))

\* picozip__crc32 that starts every call from the initial register and ignores
\* the crc it is given
picozip__crc32_restart(ptr, crc) == Not32(CrcLoops(<<255, 255, 255, 255>>, ptr))

\* picozip__crc32(ptr, buf_len, crc): complement, fold the bytes, complement
picozip__crc32(ptr, crc) == Not32(CrcLoops(Xor32(crc, <<255, 255, 255, 255>>), ptr))

(* ---------------------------------------------------------------------- *)
(* picozip__time_to_dostime                                                *)
(* ---------------------------------------------------------------------- *)
\* seconds east of UTC that localtime() applies (the TZ of the process)
TimeZone == 0

\* localtime(): calendar decomposition of a time_t (proleptic Gregorian calendar)
localtime(current_time) ==
    LET t    == current_time + TimeZone
        days == t \div 86400
        secs == t % 86400
        z    == days + 719468
        era  == z \div 146097
        doe  == z - era * 146097
        yoe  == (doe - (doe \div 1460) + (doe \div 36524) - (doe \div 146096)) \div 365
        doy  == doe - (365 * yoe + (yoe \div 4) - (yoe \div 100))
        mp   == (5 * doy + 2) \div 153
        d    == doy - ((153 * mp + 2) \div 5) + 1
        m    == IF mp < 10 THEN mp + 3 ELSE mp - 9
        y    == yoe + era * 400 + (IF m <= 2 THEN 1 ELSE 0)
    IN  [tm_year |-> y - 1900, tm_mon |-> m - 1, tm_mday |-> d,
         tm_hour |-> secs \div 3600, tm_min |-> (secs % 3600) \div 60, tm_sec |-> secs % 60]

\* a clamp that moves the year to 1980 and forgets to reset month, day and time
ClampTmYearOnly(tm) ==
    IF tm.tm_year < 80 THEN [tm EXCEPT !.tm_year = 80] ELSE tm

\* the clamp of picozip__time_to_dostime: years before 1980 become 1980-1-1 00:00:00
ClampTm(tm) ==
    IF tm.tm_year < 80
    THEN [tm_year |-> 80, tm_mon |-> 0, tm_mday |-> 1, tm_hour |-> 0, tm_min |-> 0, tm_sec |-> 0]
    ELSE tm

\* *dos_time
DosTime(tm) == U16(tm.tm_hour * 2048 + tm.tm_min * 32 + (tm.tm_sec \div 2))

\* *dos_date
DosDate(tm) == U16((tm.tm_year + 1900 - 1980) * 512 + (tm.tm_mon + 1) * 32 + tm.tm_mday)

\* picozip__time_to_dostime(current_time, &dos_date, &dos_time)
picozip__time_to_dostime(current_time) ==
    LET tm == ClampTm(localtime(current_time))
    IN  [dos_date |-> DosDate(tm), dos_time |-> DosTime(tm)]

(* ---------------------------------------------------------------------- *)
(* Arguments the callers pass                                              *)
(* ---------------------------------------------------------------------- *)
\* a null pointer: a value that no buffer, file or session equals
NULL == <<-1, -1>>

\* "test.txt"
test_txt == <<116, 101, 115, 116, 46, 116, 120, 116>>

\* "d/"
dir_path == <<100, 47>>

\* "hello world!"
hello_world == <<104, 101, 108, 108, 111, 32, 119, 111, 114, 108, 100, 33>>

\* "zip"
zip_comment == <<122, 105, 112>>

\* what time(NULL) returns in picozip_new_entry_mem
Now == 1730559952

\* what the callers add: a file with 12 bytes of content, and a directory marker
\* (size 0, data NULL, a path ending in '/') that carries a one-byte comment "c"
Items ==
    { [path |-> test_txt, data |-> hello_world, size |-> 12, mod_time |-> Now,
       comment |-> NULL, comment_len |-> 0],
      [path |-> dir_path, data |-> NULL, size |-> 0, mod_time |-> 0,
       comment |-> <<99>>, comment_len |-> 1] }

\* the archive comments passed to picozip_end_ex
EndComments == { [comment |-> NULL, comment_len |-> 0],
                 [comment |-> zip_comment, comment_len |-> 3] }

\* the sink accepts every byte (the tests' num_write_success = -1)
Unlimited == -1

\* how many more bytes the sink accepts before its writes come back short
Rooms == {Unlimited, 0, 33, 100}

\* how many more allocations the allocator grants before it returns NULL (the
\* tests' num_alloc_success)
AllocBudgets == {0, 1, 2, 3}

\* strlen(s)
strlen(s) == Len(s)

\* the n bytes memcpy reads at p (nothing when n = 0, also when p is NULL)
Bytes(p, n) == IF n = 0 THEN <<>> ELSE SubSeq(p, 1, n)

RECURSIVE Concat(_)
\* the concatenation of a sequence of byte sequences
Concat(ws) == IF ws = <<>> THEN <<>> ELSE Head(ws) \o Concat(Tail(ws))

(* ---------------------------------------------------------------------- *)
(* The session: struct picozip__file, its sink, and the last call          *)
(* ---------------------------------------------------------------------- *)
VARIABLES
    offset,       \* file->offset
    num_entries,  \* file->num_entries
    entries,      \* file->entries: [data, cap, size]; data is the pointer array
    sink,         \* the bytes the write callback has accepted, in order
    room,         \* the bytes the sink still accepts, or Unlimited
    allocs,       \* the allocations the allocator still grants, or Unlimited
    crashed,      \* the process died of undefined behaviour
    last,         \* the last call: its name, arguments, result, and the state before it
    added,        \* history: the add-entry calls that returned PICOZIP_OK, in order
    ends,         \* history: how many picozip_end_ex calls passed the argument check
    finalized,    \* history: a picozip_end_ex call has returned PICOZIP_OK
    callbacks,    \* file->write_cb, file->alloc_cb and file->free_cb are set (not null)
    files,        \* the sessions that the threads of a concurrent program work on
    threads,      \* where each of those threads is in its call, and its locals
    tmbuf,        \* the static struct tm that localtime() fills and returns
    mem,          \* the byte vector of an in-memory session: [data, cap, size]
    opened        \* the source files the last call opened and did not close

vars == <<offset, num_entries, entries, sink, room, allocs, crashed, last, added, ends, finalized,
          callbacks, files, threads, tmbuf, mem, opened>>

\* a call of a single-threaded program on a session that has its callbacks: it
\* leaves them in place, there are no threads to disturb, and it opens no file
Alive ==
    /\ ~crashed
    /\ callbacks
    /\ opened' = 0
    /\ UNCHANGED <<callbacks, files, threads, tmbuf, mem>>

\* a program with one thread: no shared sessions, localtime() not yet called, and
\* no bytes kept in memory
SingleThreaded ==
    /\ files = <<>>
    /\ threads = <<>>
    /\ tmbuf = [tm_year |-> 0, tm_mon |-> 0, tm_mday |-> 0, tm_hour |-> 0, tm_min |-> 0,
                tm_sec |-> 0]
    /\ mem = [data |-> <<>>, cap |-> 0, size |-> 0]
    /\ opened = 0

\* what a slot of the pointer array holds once foreign data has overwritten it
Garbage == [wild |-> TRUE]

\* the record a garbage pointer is read as: arbitrary memory, here an entry whose
\* fields have nothing to do with any entry that was added
GarbageEntry ==
    [version_made |-> 257, version_extract |-> 0, flags |-> 0, comp_method |-> 0,
     mod_time |-> 0, crc32 |-> <<1, 2, 3, 4>>, comp_size |-> 7, uncomp_size |-> 7,
     filename_len |-> 1, extra_field_len |-> 0, comment_len |-> 0, internal_attr |-> 0,
     external_attr |-> 0, header_offset |-> 5, metadata |-> <<63>>]

\* what the state before a call looked like
Snapshot ==
    [sink_len |-> Len(sink), offset |-> offset, num_entries |-> num_entries,
     ends |-> ends, finalized |-> finalized]

\* the result of a call that never returns because the process died in it
NoReturn == -1

\* the record of a call that returns ret
Call(op, ret, arg) == [op |-> op, ret |-> ret, arg |-> arg, pre |-> Snapshot]

\* the session picozip_new returns
picozip_new ==
    /\ offset = 0
    /\ num_entries = 0
    /\ entries = [data |-> <<>>, cap |-> 0, size |-> 0]
    /\ sink = <<>>
    /\ crashed = FALSE
    /\ last = [op |-> "new", ret |-> PICOZIP_OK, arg |-> <<>>,
               pre |-> [sink_len |-> 0, offset |-> 0, num_entries |-> 0,
                        ends |-> 0, finalized |-> FALSE]]
    /\ added = <<>>
    /\ ends = 0
    /\ finalized = FALSE
    /\ callbacks = TRUE

\* a new session on a sink that accepts every write, with an allocator that grants
\* every allocation
Init == picozip_new /\ SingleThreaded /\ room = Unlimited /\ allocs = Unlimited

\* a new session on a sink that stops accepting bytes at some point
InitShort == picozip_new /\ SingleThreaded /\ room \in Rooms /\ allocs = Unlimited

\* a new session with an allocator that stops granting allocations at some point
InitNoMem == picozip_new /\ SingleThreaded /\ room = Unlimited /\ allocs \in AllocBudgets

(* ---------------------------------------------------------------------- *)
(* The write callback and PICOZIP__FLUSH                                   *)
(* ---------------------------------------------------------------------- *)
\* what the write callback returns for n bytes: all of them while there is room
write_cb(n, rm) == IF rm = Unlimited \/ n <= rm THEN n ELSE rm

\* the room left after the callback has accepted n bytes
RoomAfter(n, rm) == IF rm = Unlimited THEN rm ELSE rm - n

\* the result of no write at all
NoWrites(rm) == [bytes |-> <<>>, advanced |-> 0, failed |-> FALSE, room |-> rm]

RECURSIVE Flush(_, _)
\* PICOZIP__FLUSH for each write of ws in turn, after the writes of acc: the callback
\* takes what it accepts; a count other than the size ends the operation, a full
\* write adds its size to file->offset
Flush(ws, acc) ==
    IF ws = <<>> \/ acc.failed THEN acc
    ELSE LET w == Head(ws)
             n == write_cb(Len(w), acc.room)
         IN  Flush(Tail(ws),
                   [bytes    |-> acc.bytes \o SubSeq(w, 1, n),
                    advanced |-> IF n # Len(w) THEN acc.advanced ELSE acc.advanced + Len(w),
                    failed   |-> n # Len(w),
                    room     |-> RoomAfter(n, acc.room)])

(* ---------------------------------------------------------------------- *)
(* The ledger: picozip__vec_alloc, picozip__alloc_entry, free_last_entry   *)
(* ---------------------------------------------------------------------- *)
\* whether the allocation callback returns a block when al allocations are left
alloc_cb(al) == al # 0

\* the allocations left after one was granted
AllocsAfter(al) == IF al = Unlimited THEN al ELSE al - 1

\* picozip__vec_alloc(vec, size): a new block of vec->size + size bytes when the
\* capacity does not suffice, into which the first vec->size bytes are copied;
\* NULL (failed) when the allocator returns none
picozip__vec_alloc(vec, size, al) ==
    IF vec.size + size > vec.cap
    THEN IF alloc_cb(al)
         THEN [vec |-> [data |-> SubSeq(vec.data, 1, vec.size \div PtrSize),
                        cap  |-> vec.size + size,
                        size |-> vec.size],
               failed |-> FALSE, allocs |-> AllocsAfter(al)]
         ELSE [vec |-> vec, failed |-> TRUE, allocs |-> al]
    ELSE [vec |-> vec, failed |-> FALSE, allocs |-> al]

\* entries[i] = v, i counted from 0
PutSlot(data, i, v) ==
    IF i + 1 <= Len(data) THEN [data EXCEPT ![i + 1] = v] ELSE Append(data, v)

\* entries[i] lies inside the block picozip__vec_alloc obtained
InBounds(vec, i) == (i + 1) * PtrSize <= vec.cap

\* what a store past the end of the block can lead to: the pointer stays readable
\* (allocator slack), other heap data overwrites it later, or the process dies
OobStores == {"kept", "clobbered", "crash"}

\* what free() of an indeterminate pointer can lead to
WildFrees == {"ignored", "crash"}

\* what reading an entry through a garbage pointer can lead to
WildReads == {"garbage", "crash"}

\* picozip__alloc_entry without the test of the entry allocation's result
picozip__alloc_entry_unchecked(vec, n, entry, ub, al) ==
    LET g     == picozip__vec_alloc(vec, PtrSize, al)
        grown == g.vec
        v     == IF InBounds(grown, n) \/ ub = "kept" THEN entry ELSE Garbage
    IN  IF g.failed
        THEN [entries |-> grown, num_entries |-> n, died |-> FALSE, failed |-> TRUE,
              allocs |-> g.allocs]
        ELSE [entries |-> [grown EXCEPT !.data = PutSlot(grown.data, n, v)],
              num_entries |-> n + 1,
              died |-> ~InBounds(grown, n) /\ ub = "crash",
              failed |-> FALSE,
              allocs |-> AllocsAfter(g.allocs)]

\* picozip__alloc_entry: make room in the pointer array, allocate the entry, and
\* entries[file->num_entries++] = entry; NULL (failed) when an allocation fails
picozip__alloc_entry(vec, n, entry, ub, al) ==
    LET g     == picozip__vec_alloc(vec, PtrSize, al)
        grown == g.vec
        v     == IF InBounds(grown, n) \/ ub = "kept" THEN entry ELSE Garbage
    IN  IF g.failed \/ ~alloc_cb(g.allocs)
        THEN [entries |-> grown, num_entries |-> n, died |-> FALSE, failed |-> TRUE,
              allocs |-> g.allocs]
        ELSE [entries |-> [grown EXCEPT !.data = PutSlot(grown.data, n, v)],
              num_entries |-> n + 1,
              died |-> ~InBounds(grown, n) /\ ub = "crash",
              failed |-> FALSE,
              allocs |-> AllocsAfter(g.allocs)]

\* picozip__free_last_entry: free(entries[file->num_entries--]), the slot after the
\* last one in use, which no store has written
picozip__free_last_entry(n, fr) ==
    [freed_slot |-> n, num_entries |-> n - 1, died |-> fr = "crash"]

(* ---------------------------------------------------------------------- *)
(* Records                                                                 *)
(* ---------------------------------------------------------------------- *)
\* the extended-timestamp extra field written into entry->metadata
TimestampField(mod_time) ==
    WRITE_LE16(PICOZIP__TIMESTAMP_MAGIC) \o WRITE_LE16(PICOZIP__LOCAL_TIMESTAMP_SIZE)
        \o <<1>> \o WRITE_LE32(mod_time)

\* "populate the entry" of picozip_new_entry_mem_ex and picozip_new_entry_file
PopulateEntry(path, mod_time, comment, comment_len, flags, crc32, size, at) ==
    [version_made |-> 0, version_extract |-> PICOZIP__MIN_VERSION, flags |-> flags,
     comp_method |-> 0, internal_attr |-> 0, external_attr |-> 0,
     header_offset |-> at, mod_time |-> mod_time,
     comp_size |-> size, uncomp_size |-> size,
     filename_len |-> U16(strlen(path)),
     extra_field_len |-> PICOZIP__ATTR_SIZE + PICOZIP__LOCAL_TIMESTAMP_SIZE,
     comment_len |-> U16(comment_len),
     crc32 |-> crc32,
     metadata |-> path \o TimestampField(mod_time) \o Bytes(comment, comment_len)]

\* the 30 bytes picozip__write_local_entry puts in file->scratch
LocalHeader(entry) ==
    LET dos == picozip__time_to_dostime(entry.mod_time)
    IN  PICOZIP__LOCAL_MAGIC
        \o WRITE_LE16(entry.version_extract) \o WRITE_LE16(entry.flags)
        \o WRITE_LE16(entry.comp_method)
        \o WRITE_LE16(dos.dos_time) \o WRITE_LE16(dos.dos_date)
        \o entry.crc32 \o WRITE_LE32(entry.comp_size) \o WRITE_LE32(entry.uncomp_size)
        \o WRITE_LE16(entry.filename_len) \o WRITE_LE16(entry.extra_field_len)

\* picozip__write_local_entry: the header, then filename and extra field
picozip__write_local_entry(entry) ==
    << LocalHeader(entry),
       SubSeq(entry.metadata, 1, entry.filename_len + entry.extra_field_len) >>

\* the 46 bytes picozip_end_ex puts in file->scratch for one entry
CentralHeader(entry) ==
    LET dos == picozip__time_to_dostime(entry.mod_time)
    IN  PICOZIP__CENTRAL_MAGIC
        \o WRITE_LE16(entry.version_made) \o WRITE_LE16(entry.version_extract)
        \o WRITE_LE16(entry.flags) \o WRITE_LE16(entry.comp_method)
        \o WRITE_LE16(dos.dos_time) \o WRITE_LE16(dos.dos_date)
        \o entry.crc32 \o WRITE_LE32(entry.comp_size) \o WRITE_LE32(entry.uncomp_size)
        \o WRITE_LE16(entry.filename_len) \o WRITE_LE16(entry.extra_field_len)
        \o WRITE_LE16(entry.comment_len) \o WRITE_LE16(0)
        \o WRITE_LE16(entry.internal_attr) \o WRITE_LE32(entry.external_attr)
        \o WRITE_LE32(entry.header_offset)

\* cd_size counting only the fixed part of each record
CentralSizeFixedPart(entry) == PICOZIP__CD_HEADER_SIZE

\* the bytes one entry adds to cd_size
CentralSize(entry) ==
    PICOZIP__CD_HEADER_SIZE + entry.filename_len + entry.extra_field_len + entry.comment_len

\* the two writes of picozip_end_ex for one entry
CentralWrites(entry) ==
    << CentralHeader(entry),
       SubSeq(entry.metadata, 1,
              entry.filename_len + entry.extra_field_len + entry.comment_len) >>

\* an end-of-central-directory record that declares no archive comment
EocdRecordNoComment(n, cd_size, cd_offset, comment_len) ==
    PICOZIP__EOCD_MAGIC \o WRITE_LE16(0) \o WRITE_LE16(0)
        \o WRITE_LE16(n) \o WRITE_LE16(n)
        \o WRITE_LE32(cd_size) \o WRITE_LE32(cd_offset) \o WRITE_LE16(0)

\* the 22 bytes of the end-of-central-directory record
EocdRecord(n, cd_size, cd_offset, comment_len) ==
    PICOZIP__EOCD_MAGIC \o WRITE_LE16(0) \o WRITE_LE16(0)
        \o WRITE_LE16(n) \o WRITE_LE16(n)
        \o WRITE_LE32(cd_size) \o WRITE_LE32(cd_offset) \o WRITE_LE16(comment_len)

\* the 16 bytes of the data descriptor of a streamed entry
DataDescriptor(entry) ==
    PICOZIP__DATADESC_MAGIC \o entry.crc32
        \o WRITE_LE32(entry.comp_size) \o WRITE_LE32(entry.uncomp_size)

(* ---------------------------------------------------------------------- *)
(* Outcomes of a call                                                      *)
(* ---------------------------------------------------------------------- *)
\* errno after a failed fstat() and a failed fopen()
EBADF == 9
ENOENT == 2

\* the call returns ret after it has asked the allocator for a block
RejectedAfterAlloc(op, ret) ==
    /\ last' = Call(op, ret, <<>>)
    /\ allocs' = AllocsAfter(allocs)
    /\ UNCHANGED <<offset, num_entries, entries, sink, room, crashed, added, ends, finalized>>

\* the call returns ret before it touches the session
Rejected(op, ret) ==
    /\ last' = Call(op, ret, <<>>)
    /\ UNCHANGED <<offset, num_entries, entries, sink, room, allocs, crashed, added, ends,
                   finalized>>

\* the writes f have gone to the sink
Written(f) ==
    /\ offset' = offset + f.advanced
    /\ sink' = sink \o f.bytes
    /\ room' = f.room

\* the process dies inside the call, after the writes f
Dies(op, ent, n, f) ==
    /\ crashed' = TRUE
    /\ last' = Call(op, NoReturn, <<>>)
    /\ entries' = ent
    /\ num_entries' = n
    /\ Written(f)
    /\ UNCHANGED <<added, ends, finalized>>

(* ---------------------------------------------------------------------- *)
(* Adding entries                                                          *)
(* ---------------------------------------------------------------------- *)
\* the part the two add-entry functions share: allocate the entry (final is what
\* the entry holds when the call returns) or return PICOZIP_ENOMEM, write ws, and on
\* a failed write free the entry and return PICOZIP_EIO
AddEntry(final, ws, rec, ub, fr) ==
    \E a \in {picozip__alloc_entry(entries, num_entries, final, ub, allocs)},
       f \in {Flush(ws, NoWrites(room))} :
        LET r == picozip__free_last_entry(a.num_entries, fr)
        IN  /\ allocs' = a.allocs
            /\ IF a.failed
               THEN /\ entries' = a.entries
                    /\ last' = Call("add", PICOZIP_ENOMEM, rec)
                    /\ UNCHANGED <<offset, num_entries, sink, room, crashed, added, ends,
                                   finalized>>
               ELSE IF a.died THEN Dies("add", entries, num_entries, NoWrites(room))
               ELSE IF f.failed /\ r.died THEN Dies("add", a.entries, a.num_entries, f)
               ELSE
                 /\ entries' = a.entries
                 /\ num_entries' = IF f.failed THEN r.num_entries ELSE a.num_entries
                 /\ Written(f)
                 /\ last' = IF f.failed
                            THEN Call("add", PICOZIP_EIO, rec @@ [freed_slot |-> r.freed_slot])
                            ELSE Call("add", PICOZIP_OK, rec)
                 /\ added' = IF f.failed THEN added ELSE Append(added, rec)
                 /\ UNCHANGED <<crashed, ends, finalized>>

\* picozip_new_entry_mem_ex
picozip_new_entry_mem_ex(file, path, data, size, mod_time, comment, comment_len, ub, fr) ==
    IF file = NULL \/ path = NULL \/ (size # 0 /\ data = NULL)
       \/ (comment_len # 0 /\ comment = NULL)
    THEN Rejected("add", PICOZIP_EINVAL)
    ELSE /\ num_entries < MaxEntries
         /\ \E crc \in {Not32(picozip__crc32(Bytes(data, size), PICOZIP__CRC_START))} :
            \E entry \in {PopulateEntry(path, mod_time, comment, comment_len, 0, crc,
                                        size, offset)} :
                AddEntry(entry,
                         picozip__write_local_entry(entry) \o <<Bytes(data, size)>>,
                         [path |-> path, content |-> Bytes(data, size),
                          mod_time |-> mod_time, comment |-> Bytes(comment, comment_len),
                          streamed |-> FALSE],
                         ub, fr)

\* picozip_new_entry_mem
picozip_new_entry_mem(file, path, data, size, ub, fr) ==
    picozip_new_entry_mem_ex(file, path, data, size, Now, NULL, 0, ub, fr)

\* the smaller of two numbers
Min(a, b) == IF a < b THEN a ELSE b

RECURSIVE Chunks(_)
\* what the fread() calls of picozip_new_entry_file return: PICOZIP_READ_BUF bytes
\* at a time, until a read returns fewer
Chunks(content) ==
    LET data_read == Min(Len(content), PICOZIP_READ_BUF)
    IN  IF data_read = PICOZIP_READ_BUF
        THEN <<SubSeq(content, 1, data_read)>>
                 \o Chunks(SubSeq(content, data_read + 1, Len(content)))
        ELSE <<SubSeq(content, 1, data_read)>>

\* CrcChunks that keeps the checksum of the last chunk only
CrcChunksLastOnly(crc, chunks) ==
    IF chunks = <<>> THEN crc
    ELSE picozip__crc32(chunks[Len(chunks)], crc)

RECURSIVE CrcChunks(_, _)
\* entry->crc32 = picozip__crc32(buffer, data_read, entry->crc32), chunk by chunk
CrcChunks(crc, chunks) ==
    IF chunks = <<>> THEN crc
    ELSE CrcChunks(picozip__crc32(Head(chunks), crc), Tail(chunks))

\* picozip_new_entry_file; fptr points to [content, st_mtime], stat_ok is whether
\* fstat() succeeds
picozip_new_entry_file(file, path, fptr, comment, comment_len, stat_ok, ub, fr) ==
    IF file = NULL \/ path = NULL \/ fptr = NULL \/ (comment_len # 0 /\ comment = NULL)
    THEN Rejected("add", PICOZIP_EINVAL)
    ELSE IF ~stat_ok THEN Rejected("add", EBADF)
    ELSE /\ num_entries < MaxEntries
         /\ \E entry \in {PopulateEntry(path, fptr[1].st_mtime, comment, comment_len,
                                        PICOZIP__FLAG_DATADESC, Zero32, 0, offset)},
               chunks \in {Chunks(fptr[1].content)} :
            \E final \in {[entry EXCEPT
                             !.crc32 = Not32(CrcChunks(PICOZIP__CRC_START, chunks)),
                             !.comp_size = Len(Concat(chunks)),
                             !.uncomp_size = Len(Concat(chunks))]} :
                AddEntry(final,
                         picozip__write_local_entry(entry) \o chunks
                             \o <<DataDescriptor(final)>>,
                         [path |-> path, content |-> Concat(chunks),
                          mod_time |-> fptr[1].st_mtime,
                          comment |-> Bytes(comment, comment_len), streamed |-> TRUE],
                         ub, fr)

\* picozip_new_entry_path; fptr is what fopen(file_path, "rb") returns. Neither
\* this function nor picozip_new_entry_file calls fclose(fptr)
picozip_new_entry_path(file, path, file_path, fptr, comment, comment_len, stat_ok, ub, fr) ==
    IF file = NULL \/ path = NULL \/ file_path = NULL \/ (comment_len # 0 /\ comment = NULL)
    THEN Rejected("add", PICOZIP_EINVAL) /\ opened' = 0
    ELSE IF fptr = NULL THEN Rejected("add", ENOENT) /\ opened' = 0
    ELSE /\ picozip_new_entry_file(file, path, fptr, comment, comment_len,
                                   stat_ok, ub, fr)
         /\ opened' = 1

(* ---------------------------------------------------------------------- *)
(* Finalizing                                                              *)
(* ---------------------------------------------------------------------- *)
\* entries[0 .. n-1]
Ledger(vec, n) == SubSeq(vec.data, 1, n)

\* the entries before the first garbage pointer of a ledger
RECURSIVE Readable(_)
Readable(es) ==
    IF es = <<>> \/ Head(es) = Garbage THEN <<>> ELSE <<Head(es)>> \o Readable(Tail(es))

\* the entry picozip_end_ex reads through entries[i]
Deref(e) == IF e = Garbage THEN GarbageEntry ELSE e

RECURSIVE CentralDirectory(_)
\* the writes of the loop of picozip_end_ex over the entries es
CentralDirectory(es) ==
    IF es = <<>> THEN <<>>
    ELSE CentralWrites(Deref(Head(es))) \o CentralDirectory(Tail(es))

RECURSIVE CdSize(_)
\* cd_size after the loop of picozip_end_ex over the entries es
CdSize(es) == IF es = <<>> THEN 0 ELSE CentralSize(Deref(Head(es))) + CdSize(Tail(es))

\* picozip_end_ex; g is what reading through a garbage pointer leads to
picozip_end_ex(file, comment, comment_len, g) ==
    IF file = NULL \/ (comment_len # 0 /\ comment = NULL)
    THEN Rejected("end", PICOZIP_EINVAL)
    ELSE /\ ends < MaxEnds
         /\ ends' = ends + 1
         /\ \E es \in {Ledger(entries, num_entries)}, cd_offset \in {offset} :
            IF Readable(es) # es /\ g = "crash"
               /\ ~Flush(CentralDirectory(Readable(es)), NoWrites(room)).failed
            THEN /\ crashed' = TRUE
                 /\ last' = Call("end", NoReturn, <<>>)
                 /\ Written(Flush(CentralDirectory(Readable(es)), NoWrites(room)))
                 /\ UNCHANGED <<entries, num_entries, allocs, added, finalized>>
            ELSE \E f \in {Flush(CentralDirectory(es)
                                   \o <<EocdRecord(num_entries, CdSize(es), cd_offset,
                                                   comment_len)>>
                                   \o (IF comment # NULL
                                       THEN <<Bytes(comment, comment_len)>> ELSE <<>>),
                                 NoWrites(room))} :
                     /\ Written(f)
                     /\ last' = Call("end", IF f.failed THEN PICOZIP_EIO ELSE PICOZIP_OK,
                                     Bytes(comment, comment_len))
                     /\ finalized' = (finalized \/ ~f.failed)
                     /\ UNCHANGED <<entries, num_entries, allocs, crashed, added>>

\* picozip_end
picozip_end(file, g) ==
    IF file # NULL THEN picozip_end_ex(file, NULL, 0, g) ELSE Rejected("end", PICOZIP_EINVAL)

(* ---------------------------------------------------------------------- *)
(* The calls a program makes on the session                                *)
(* ---------------------------------------------------------------------- *)
\* the session pointer
TheFile == <<"file">>

\* a pointer to the open source file that holds an item's content
SourceOf(it) == <<[content |-> Bytes(it.data, it.size), st_mtime |-> it.mod_time]>>

\* the name of a source file
SourcePath == <<115, 114, 99>>

\* the outcomes the store of picozip__alloc_entry can have in the current state
StoreOutcomes ==
    IF InBounds(picozip__vec_alloc(entries, PtrSize, Unlimited).vec, num_entries)
    THEN {"kept"} ELSE OobStores

\* the outcomes the free() of picozip__free_last_entry can have in the current
\* state; it is reached only after a failed write
FreeOutcomes == IF room = Unlimited THEN {"ignored"} ELSE WildFrees

\* the outcomes the reads of picozip_end_ex can have in the current state
ReadOutcomes ==
    IF \E i \in 1 .. num_entries : entries.data[i] = Garbage
    THEN WildReads ELSE {"garbage"}

NewEntryMemEx ==
    \E it \in Items, ub \in StoreOutcomes, fr \in FreeOutcomes :
        /\ Alive
        /\ picozip_new_entry_mem_ex(TheFile, it.path, it.data,
                                    it.size, it.mod_time, it.comment, it.comment_len,
                                    ub, fr)

NewEntryMem ==
    \E it \in Items, ub \in StoreOutcomes, fr \in FreeOutcomes :
        /\ Alive
        /\ picozip_new_entry_mem(TheFile, it.path, it.data,
                                 it.size, ub, fr)

NewEntryFile ==
    \E it \in Items, ub \in StoreOutcomes, fr \in FreeOutcomes :
        /\ Alive
        /\ picozip_new_entry_file(TheFile, it.path,
                                  SourceOf(it), it.comment, it.comment_len, TRUE, ub, fr)

NewEntryPath ==
    \E it \in Items, ub \in StoreOutcomes, fr \in FreeOutcomes :
        /\ ~crashed
        /\ callbacks
        /\ UNCHANGED <<callbacks, files, threads, tmbuf, mem>>
        /\ picozip_new_entry_path(TheFile, it.path, SourcePath,
                                  SourceOf(it), it.comment, it.comment_len, TRUE, ub, fr)

EndEx ==
    \E c \in EndComments, g \in ReadOutcomes :
        /\ Alive
        /\ picozip_end_ex(TheFile, c.comment, c.comment_len, g)

End ==
    \E g \in ReadOutcomes :
        /\ Alive
        /\ picozip_end(TheFile, g)

\* a program that passes valid arguments
Next ==
    \/ NewEntryMemEx
    \/ NewEntryMem
    \/ NewEntryFile
    \/ NewEntryPath
    \/ EndEx
    \/ End

\* a session on a sink that accepts every write
Spec == Init /\ [][Next]_vars

\* the sink accepts writes again (space was freed; the tests reset num_write_success)
SinkRecovers ==
    /\ Alive
    /\ room # Unlimited
    /\ room' = Unlimited
    /\ UNCHANGED <<offset, num_entries, entries, sink, allocs, crashed, last, added, ends,
                   finalized>>

NextShort ==
    \/ Next
    \/ SinkRecovers

\* a session on a sink whose writes can come back short
SpecShort == InitShort /\ [][NextShort]_vars

\* a session whose allocator can run out of memory
SpecNoMem == InitNoMem /\ [][Next]_vars

\* a program that adds known-size entries only, on a sink whose writes can come back
\* short
SpecKnownSize ==
    InitShort /\ [][NewEntryMemEx \/ NewEntryMem \/ EndEx \/ End \/ SinkRecovers]_vars

(* ---------------------------------------------------------------------- *)
(* Calls with invalid arguments                                            *)
(* ---------------------------------------------------------------------- *)
\* a new session whose sink and allocator both have a budget
InitArgs ==
    /\ picozip_new
    /\ SingleThreaded
    /\ \E b \in {<<200, 3>>, <<33, 1>>} :
           room = b[1] /\ allocs = b[2]

\* the arguments of test_picozip_new_entry_mem_ex_einval and
\* test_picozip_end_ex_einval: each has one defect
InvalidArgs ==
    { [file |-> NULL, path |-> test_txt, data |-> hello_world, size |-> 11,
       comment |-> zip_comment, comment_len |-> 3],
      [file |-> TheFile, path |-> NULL, data |-> hello_world, size |-> 11,
       comment |-> zip_comment, comment_len |-> 3],
      [file |-> TheFile, path |-> test_txt, data |-> NULL, size |-> 11,
       comment |-> zip_comment, comment_len |-> 3],
      [file |-> TheFile, path |-> test_txt, data |-> hello_world, size |-> 11,
       comment |-> NULL, comment_len |-> 17] }

\* a null session, a null path, a non-zero content length with null content, a
\* non-zero comment length with a null comment
BadArgs(file, path, data, size, comment, comment_len) ==
    \/ file = NULL
    \/ path = NULL
    \/ size # 0 /\ data = NULL
    \/ comment_len # 0 /\ comment = NULL

\* a call with invalid arguments, of each function in turn; fptr is an open source
\* file, which picozip_new_entry_file and picozip_new_entry_path do not get to read
InvalidCall ==
    \E a \in InvalidArgs, fptr \in {<<[content |-> hello_world, st_mtime |-> 0]>>} :
        /\ Alive
        /\ \/ /\ BadArgs(a.file, a.path, a.data, a.size, a.comment, a.comment_len)
              /\ picozip_new_entry_mem_ex(a.file, a.path, a.data, a.size, 0, a.comment,
                                          a.comment_len, "kept", "ignored")
           \/ /\ BadArgs(a.file, a.path, a.data, a.size, NULL, 0)
              /\ picozip_new_entry_mem(a.file, a.path, a.data, a.size, "kept", "ignored")
           \/ /\ BadArgs(a.file, a.path, NULL, 0, a.comment, a.comment_len)
              /\ picozip_new_entry_file(a.file, a.path, fptr, a.comment, a.comment_len,
                                        TRUE, "kept", "ignored")
           \/ /\ BadArgs(a.file, a.path, NULL, 0, a.comment, a.comment_len)
              /\ picozip_new_entry_path(a.file, a.path, SourcePath, fptr, a.comment,
                                        a.comment_len, TRUE, "kept", "ignored")
           \/ /\ BadArgs(a.file, test_txt, NULL, 0, a.comment, a.comment_len)
              /\ picozip_end_ex(a.file, a.comment, a.comment_len, "garbage")
           \/ /\ BadArgs(a.file, test_txt, NULL, 0, NULL, 0)
              /\ picozip_end(a.file, "garbage")

\* a known-size add whose path is the empty string ""
NewEntryEmptyPath ==
    \E ub \in StoreOutcomes, fr \in FreeOutcomes :
        /\ Alive
        /\ picozip_new_entry_mem_ex(TheFile, <<>>, hello_world, 12, Now, NULL, 0, ub, fr)

\* a program that adds known-size entries and finalizes, and also passes invalid
\* arguments and empty paths, on a sink and an allocator with budgets
SpecArgs ==
    InitArgs /\ [][NewEntryMemEx \/ EndEx \/ InvalidCall \/ NewEntryEmptyPath]_vars

(* ---------------------------------------------------------------------- *)
(* Sources that fail                                                       *)
(* ---------------------------------------------------------------------- *)
\* a streamed add from an open source file of 12 bytes whose fread() fails after 5
\* of them: fread() returns the 5 bytes it has read, a count below PICOZIP_READ_BUF,
\* and sets the stream's error indicator, which picozip_new_entry_file does not test
NewEntryFileReadError ==
    \E ub \in StoreOutcomes, fr \in FreeOutcomes,
       fptr \in {<<[content |-> SubSeq(hello_world, 1, 5), st_mtime |-> Now,
                    error |-> TRUE]>>} :
        /\ Alive
        /\ picozip_new_entry_file(TheFile, test_txt, fptr, NULL, 0, TRUE, ub, fr)

\* a program that streams its entries, from sources that can fail
SpecReadError ==
    Init /\ [][NewEntryFile \/ NewEntryPath \/ NewEntryFileReadError \/ EndEx \/ End]_vars

(* ---------------------------------------------------------------------- *)
(* Long names                                                              *)
(* ---------------------------------------------------------------------- *)
\* a known-size add whose path has 65539 characters 'a', three more than a uint16_t
\* counts
NewEntryLongPath ==
    \E ub \in StoreOutcomes, fr \in FreeOutcomes, path \in {[i \in 1 .. 65539 |-> 97]} :
        /\ Alive
        /\ picozip_new_entry_mem_ex(TheFile, path, hello_world, 12, 0, NULL, 0, ub, fr)

\* a program that adds known-size entries, some of them with a long path
SpecLongPath == Init /\ [][NewEntryMemEx \/ NewEntryLongPath \/ EndEx \/ End]_vars

(* ---------------------------------------------------------------------- *)
(* Modification times                                                      *)
(* ---------------------------------------------------------------------- *)
\* the modification times callers pass: the last second of 1969, the epoch, the
\* last second of 1979, the first of 1980, the time of the tests, and the largest
\* time a 32-bit time_t holds (2038-01-19 03:14:07)
Times == {-1, 0, 315532799, 315532800, Now, 2147483647}

NewEntryAt ==
    \E t \in Times, ub \in StoreOutcomes, fr \in FreeOutcomes :
        /\ Alive
        /\ picozip_new_entry_mem_ex(TheFile, test_txt, hello_world, 12, t, NULL, 0, ub, fr)

\* a program that adds entries with chosen modification times
SpecTimes == Init /\ [][NewEntryAt \/ End]_vars

(* ---------------------------------------------------------------------- *)

(* Threads                                                                 *)
(* ---------------------------------------------------------------------- *)
\* two threads, each about to call picozip_new_entry_mem_ex with an item of its
\* own; thread t works on session sessions[t], a new session on a sink that accepts
\* every write
Concurrent(sessions) ==
    /\ picozip_new /\ room = Unlimited /\ allocs = Unlimited
    /\ files = [f \in {sessions[1], sessions[2]} |->
                   [offset |-> 0, num_entries |-> 0,
                    entries |-> [data |-> <<>>, cap |-> 0, size |-> 0],
                    sink |-> <<>>, scratch |-> <<>>]]
    /\ \E its \in [1 .. 2 -> Items] :
           threads = [t \in 1 .. 2 |->
                         [file |-> sessions[t], item |-> its[t], pc |-> "alloc", slot |-> 0,
                          entry |-> GarbageEntry]]
    /\ tmbuf = [tm_year |-> 0, tm_mon |-> 0, tm_mday |-> 0, tm_hour |-> 0, tm_min |-> 0,
                tm_sec |-> 0]
    /\ mem = [data |-> <<>>, cap |-> 0, size |-> 0]
    /\ opened = 0

\* the next step of thread t in picozip_new_entry_mem_ex: the statements between
\* two accesses to memory that other threads can reach (the session, the static
\* buffer of localtime()), none of which is protected by a lock
AddStep(t, ub) ==
    LET th  == threads[t]
        F   == files[th.file]
        it  == th.item
        e   == th.entry
        to(pc) == [th EXCEPT !.pc = pc]
        same   == [file |-> F, th |-> th, tm |-> tmbuf, died |-> FALSE]
        out(b) == [F EXCEPT !.sink = @ \o b, !.offset = @ + Len(b)]
        step ==
            CASE th.pc = "alloc" ->
                     [same EXCEPT
                         !.file = [F EXCEPT
                                      !.entries = picozip__vec_alloc(@, PtrSize, allocs).vec],
                         !.th = [to("store") EXCEPT !.slot = F.num_entries]]
              [] th.pc = "store" ->
                     [same EXCEPT
                         !.file = [F EXCEPT
                                      !.entries.data =
                                          PutSlot(@, th.slot,
                                                  IF ub = "kept" THEN [thread |-> t]
                                                  ELSE Garbage),
                                      !.num_entries = th.slot + 1],
                         !.th = to("populate"),
                         !.died = (ub = "crash")]
              [] th.pc = "populate" ->
                     [same EXCEPT
                         !.th = [to("localtime") EXCEPT
                                    !.entry =
                                        PopulateEntry(
                                            it.path, it.mod_time, it.comment, it.comment_len,
                                            0,
                                            Not32(picozip__crc32(Bytes(it.data, it.size),
                                                                 PICOZIP__CRC_START)),
                                            it.size, F.offset)]]
              [] th.pc = "localtime" ->
                     [same EXCEPT !.tm = localtime(e.mod_time), !.th = to("clamp")]
              [] th.pc = "clamp" ->
                     [same EXCEPT !.tm = ClampTm(tmbuf), !.th = to("dostime")]
              [] th.pc = "dostime" ->
                     [same EXCEPT
                         !.file = [F EXCEPT
                                      !.scratch =
                                          SubSeq(LocalHeader(e), 1, 10)
                                              \o WRITE_LE16(DosTime(tmbuf))
                                              \o WRITE_LE16(DosDate(tmbuf))
                                              \o SubSeq(LocalHeader(e), 15, 30)],
                         !.th = to("header")]
              [] th.pc = "header" ->
                     [same EXCEPT !.file = out(F.scratch), !.th = to("metadata")]
              [] th.pc = "metadata" ->
                     [same EXCEPT !.file = out(picozip__write_local_entry(e)[2]),
                                  !.th = to("content")]
              [] th.pc = "content" ->
                     [same EXCEPT !.file = out(Bytes(it.data, it.size)), !.th = to("done")]
    IN  /\ ~crashed
        /\ th.pc # "done"
        /\ ub = "kept" \/ (th.pc = "store" /\ ~InBounds(F.entries, th.slot))
        /\ crashed' = step.died
        /\ files' = IF step.died THEN files ELSE [files EXCEPT ![th.file] = step.file]
        /\ threads' = IF step.died THEN threads ELSE [threads EXCEPT ![t] = step.th]
        /\ tmbuf' = step.tm
        /\ UNCHANGED <<offset, num_entries, entries, sink, room, allocs, last, added, ends,
                       finalized, callbacks, mem, opened>>

\* the scheduler runs one of the threads for one step
ThreadStep == \E t \in DOMAIN threads, ub \in OobStores : AddStep(t, ub)

\* two threads that add to the same session
SpecSameSession == Concurrent(<<1, 1>>) /\ [][ThreadStep]_vars

\* two threads, each adding to a session of its own
SpecOwnSessions == Concurrent(<<1, 2>>) /\ [][ThreadStep]_vars

(* ---------------------------------------------------------------------- *)

(* Releasing the session                                                   *)
(* ---------------------------------------------------------------------- *)
\* the allocations the allocator of a program that releases its session grants
\* after picozip_new
Granted == 5

\* a new session whose allocator counts what it hands out, on a sink that accepts
\* every write or stops after 33 bytes
InitCounted ==
    picozip_new /\ SingleThreaded /\ room \in {Unlimited, 33} /\ allocs = Granted

\* picozip_free: free_cb for entries[0 .. num_entries-1] and for the pointer array,
\* then memset(file, 0, sizeof(*file)); the session record itself is not passed to
\* free_cb. fr is what free() of a garbage pointer leads to
picozip_free(file, fr) ==
    IF file = NULL THEN Rejected("free", PICOZIP_EINVAL) /\ UNCHANGED callbacks
    ELSE \E es \in {Ledger(entries, num_entries)} :
         IF Readable(es) # es /\ fr = "crash"
         THEN Dies("free", entries, num_entries, NoWrites(room))
              /\ UNCHANGED <<allocs, callbacks>>
         ELSE /\ last' = Call("free", PICOZIP_OK,
                              [entries |-> SelectSeq(es, LAMBDA e : e # Garbage),
                               array |-> entries.cap > 0, file |-> FALSE])
              /\ offset' = 0
              /\ num_entries' = 0
              /\ entries' = [data |-> <<>>, cap |-> 0, size |-> 0]
              /\ callbacks' = FALSE
              /\ UNCHANGED <<sink, room, allocs, crashed, added, ends, finalized>>

Free ==
    \E file \in {TheFile, NULL},
       fr \in IF \E i \in 1 .. num_entries : entries.data[i] = Garbage
              THEN WildFrees ELSE {"ignored"} :
        /\ ~crashed
        /\ callbacks
        /\ picozip_free(file, fr)
        /\ UNCHANGED <<files, threads, tmbuf, mem, opened>>

\* a call with valid arguments on a session that picozip_free has zeroed: add-entry
\* reaches alloc(userdata, new_cap) in picozip__vec_alloc, finalize reaches write_cb
\* in PICOZIP__FLUSH and release reaches free_cb, each a call through a null
\* function pointer
UseAfterFree ==
    \E op \in {"add", "end", "free"} :
        /\ ~crashed
        /\ ~callbacks
        /\ crashed' = TRUE
        /\ last' = Call(op, NoReturn, <<>>)
        /\ UNCHANGED <<offset, num_entries, entries, sink, room, allocs, added, ends,
                       finalized, callbacks, files, threads, tmbuf, mem, opened>>

\* a program that adds entries, finalizes or not, releases the session, and goes on
SpecRelease == InitCounted /\ [][NewEntryMemEx \/ End \/ Free \/ UseAfterFree]_vars

(* ---------------------------------------------------------------------- *)

(* Creating the session                                                    *)
(* ---------------------------------------------------------------------- *)
\* before picozip_new: the memory that will hold the session is not zeroed, no
\* callback is in place, and the allocator grants three blocks or none
InitRaw ==
    /\ offset = 7
    /\ num_entries = 3
    /\ entries = [data |-> <<Garbage, Garbage, Garbage>>, cap |-> 5, size |-> 1]
    /\ sink = <<>>
    /\ room \in {Unlimited, 33}
    /\ allocs \in {0, 3}
    /\ crashed = FALSE
    /\ last = [op |-> "main", ret |-> 0, arg |-> <<>>,
               pre |-> [sink_len |-> 0, offset |-> 0, num_entries |-> 0, ends |-> 0,
                        finalized |-> FALSE]]
    /\ added = <<>>
    /\ ends = 0
    /\ finalized = FALSE
    /\ callbacks = FALSE
    /\ SingleThreaded

\* the argument check of picozip_new without the test of free_cb
NewArgsFreeUnchecked(ofile, wr, al, fr) == ofile = NULL \/ wr = NULL \/ al = NULL

\* the argument check of picozip_new
BadNewArgs(ofile, wr, al, fr) == ofile = NULL \/ wr = NULL \/ al = NULL \/ fr = NULL

\* picozip_new(ofile, write_cb, alloc_cb, free_cb, userdata); ofile is NULL or points
\* to the caller's variable, whose value is ofile[1]
picozip_new_call(ofile, wr, al, fr) ==
    LET args(out) == [ofile |-> ofile, wr |-> wr, al |-> al, fr |-> fr, out |-> out,
                      granted |-> alloc_cb(allocs)]
        unset     == IF ofile = NULL THEN NULL ELSE ofile[1]
    IN  IF BadNewArgs(ofile, wr, al, fr)
        THEN /\ last' = Call("new", PICOZIP_EINVAL, [args(unset) EXCEPT !.granted = FALSE])
             /\ UNCHANGED <<offset, num_entries, entries, sink, room, allocs, crashed, added,
                            ends, finalized, callbacks>>
        ELSE IF ~alloc_cb(allocs)
        THEN /\ last' = Call("new", PICOZIP_ENOMEM, args(unset))
             /\ UNCHANGED <<offset, num_entries, entries, sink, room, allocs, crashed, added,
                            ends, finalized, callbacks>>
        ELSE /\ allocs' = AllocsAfter(allocs)
             /\ offset' = 0
             /\ num_entries' = 0
             /\ entries' = [data |-> <<>>, cap |-> 0, size |-> 0]
             /\ callbacks' = TRUE
             /\ last' = Call("new", PICOZIP_OK, args(TheFile))
             /\ UNCHANGED <<sink, room, crashed, added, ends, finalized>>

New ==
    \E ofile \in {NULL, <<NULL>>, <<<<"stale">>>>},
       wr \in {NULL, <<"custom_write">>}, al \in {NULL, <<"custom_alloc">>},
       fr \in {NULL, <<"custom_free">>} :
        /\ ~crashed
        /\ ~callbacks
        /\ picozip_new_call(ofile, wr, al, fr)
        /\ UNCHANGED <<files, threads, tmbuf, mem, opened>>

\* a program from its first picozip_new call on
SpecNew == InitRaw /\ [][New \/ NewEntryMemEx \/ End]_vars

(* ---------------------------------------------------------------------- *)

(* Checksums in chunks                                                     *)
(* ---------------------------------------------------------------------- *)
\* the longest of the buffers that are made of every combination of bytes
MaxBufLen == 5

\* the buffers a caller checksums: every sequence of up to MaxBufLen bytes out of
\* 0x00, '1' and 0xFF, and the texts "hello world!" and "123456789"
Buffers ==
    UNION {[1 .. n -> {0, 49, 255}] : n \in 0 .. MaxBufLen}
        \cup {hello_world, <<49, 50, 51, 52, 53, 54, 55, 56, 57>>}

\* a caller that holds a buffer and has not checksummed any of it yet
InitCrc ==
    /\ offset = 0
    /\ num_entries = 0
    /\ entries = [data |-> <<>>, cap |-> 0, size |-> 0]
    /\ sink = <<>>
    /\ room = Unlimited
    /\ allocs = Unlimited
    /\ crashed = FALSE
    /\ \E buffer \in Buffers :
           last = [op |-> "main", ret |-> 0, arg |-> [buffer |-> buffer, done |-> 0],
                   pre |-> [sink_len |-> 0, offset |-> 0, num_entries |-> 0,
                            ends |-> 0, finalized |-> FALSE]]
    /\ added = <<>>
    /\ ends = 0
    /\ finalized = FALSE
    /\ callbacks = TRUE
    /\ SingleThreaded

\* crc = picozip__crc32(buffer + done, data_read, crc) on the next data_read bytes of
\* the buffer, as in the read loop of picozip_new_entry_file; crc starts as
\* PICOZIP__CRC_START
Crc32 ==
    \E data_read \in 0 .. Len(last.arg.buffer) - last.arg.done :
        LET crc == IF last.op = "crc32" THEN last.ret ELSE PICOZIP__CRC_START
            ptr == SubSeq(last.arg.buffer, last.arg.done + 1, last.arg.done + data_read)
        IN  /\ last' = Call("crc32", picozip__crc32(ptr, crc),
                            [buffer |-> last.arg.buffer, done |-> last.arg.done + data_read,
                             ptr |-> ptr, crc |-> crc])
            /\ UNCHANGED <<offset, num_entries, entries, sink, room, allocs, crashed, added,
                           ends, finalized, callbacks, files, threads, tmbuf, mem, opened>>

\* a program that checksums a buffer in chunks of any sizes
SpecCrc == InitCrc /\ [][Crc32]_vars

(* ---------------------------------------------------------------------- *)

(* The two write protocols                                                 *)
(* ---------------------------------------------------------------------- *)
\* what a caller adds with either protocol: the two items above, "big", a file that
\* takes a read of PICOZIP_READ_BUF bytes and a read of 5, and "full", a file of
\* exactly PICOZIP_READ_BUF bytes, after which one more read returns nothing
BothWays ==
    Items \cup { [path |-> <<98, 105, 103>>,
                  data |-> [i \in 1 .. PICOZIP_READ_BUF + 5 |-> (7 * i) % 256],
                  size |-> PICOZIP_READ_BUF + 5, mod_time |-> Now,
                  comment |-> zip_comment, comment_len |-> 3],
                 [path |-> <<102, 117, 108, 108>>,
                  data |-> [i \in 1 .. PICOZIP_READ_BUF |-> (11 * i) % 256],
                  size |-> PICOZIP_READ_BUF, mod_time |-> 0,
                  comment |-> NULL, comment_len |-> 0] }

\* picozip_new_entry_mem_ex with the bytes in memory
AddKnownSize ==
    \E it \in BothWays, ub \in StoreOutcomes, fr \in FreeOutcomes :
        /\ Alive
        /\ picozip_new_entry_mem_ex(TheFile, it.path, it.data, it.size, it.mod_time,
                                    it.comment, it.comment_len, ub, fr)

\* picozip_new_entry_file with the same bytes in an open file of that modification
\* time
AddStreamed ==
    \E it \in BothWays, ub \in StoreOutcomes, fr \in FreeOutcomes :
        /\ Alive
        /\ picozip_new_entry_file(TheFile, it.path, SourceOf(it), it.comment,
                                  it.comment_len, TRUE, ub, fr)

\* a program that adds the same items with either protocol
SpecBothWays == Init /\ [][AddKnownSize \/ AddStreamed]_vars

\* a program that streams all its entries, to a sink that accepts every write
SpecStreamed == Init /\ [][AddStreamed \/ End]_vars

(* ---------------------------------------------------------------------- *)
(* Counting the entries at finalize                                        *)
(* ---------------------------------------------------------------------- *)
\* the numbers of entries a session can hold when picozip_end_ex is called: a few,
\* and the numbers around the limits of 8 and 16 bits
Counts ==
    0 .. 20 \cup {255, 256, 257, 65534, 65535, 65536, 65537, 65538, 131071, 131072}

\* picozip_end_ex is about to write the end-of-central-directory record of a session
\* that holds num_entries entries, each a file "a" of one byte (41 bytes of local
\* block, 56 bytes of central record)
InitEocd ==
    /\ offset = 0
    /\ num_entries = 0
    /\ entries = [data |-> <<>>, cap |-> 0, size |-> 0]
    /\ sink = <<>>
    /\ room = Unlimited
    /\ allocs = Unlimited
    /\ crashed = FALSE
    /\ \E n \in Counts, c \in EndComments :
           last = [op |-> "main", ret |-> 0,
                   arg |-> [num_entries |-> n, cd_size |-> 56 * n, cd_offset |-> 41 * n,
                            comment_len |-> c.comment_len],
                   pre |-> [sink_len |-> 0, offset |-> 0, num_entries |-> 0,
                            ends |-> 0, finalized |-> FALSE]]
    /\ added = <<>>
    /\ ends = 0
    /\ finalized = FALSE
    /\ callbacks = TRUE
    /\ SingleThreaded

\* the 22 bytes picozip_end_ex puts in file->scratch after the loop over the entries
WriteEocd ==
    /\ last.op = "main"
    /\ last' = Call("eocd",
                    EocdRecord(last.arg.num_entries, last.arg.cd_size, last.arg.cd_offset,
                               last.arg.comment_len),
                    last.arg)
    /\ UNCHANGED <<offset, num_entries, entries, sink, room, allocs, crashed, added, ends,
                   finalized, callbacks, files, threads, tmbuf, mem, opened>>

\* the end-of-central-directory record for ledgers of every size
SpecEocd == InitEocd /\ [][WriteEocd]_vars

(* ---------------------------------------------------------------------- *)
(* The in-memory session: picozip_new_mem, picozip__mem_write, get_mem     *)
(* ---------------------------------------------------------------------- *)
\* picozip__mem_write: picozip__vec_alloc(&file->mem, len) gets a block of
\* mem.size + len bytes from the session's allocator when the capacity does not
\* suffice and copies the first mem.size bytes into it; the len bytes go behind
\* them and mem.size grows by len. 0 when the allocator returns no block, and when
\* there is no block at all (vec->data is NULL)
picozip__mem_write(m, w, al) ==
    IF m.size + Len(w) > m.cap
    THEN IF alloc_cb(al)
         THEN [mem |-> [data |-> SubSeq(m.data, 1, m.size) \o w,
                        cap  |-> m.size + Len(w),
                        size |-> m.size + Len(w)],
               n |-> Len(w), allocs |-> AllocsAfter(al)]
         ELSE [mem |-> m, n |-> 0, allocs |-> al]
    ELSE IF m.cap = 0
         THEN [mem |-> m, n |-> 0, allocs |-> al]
         ELSE [mem |-> [m EXCEPT !.data = SubSeq(m.data, 1, m.size) \o w,
                                 !.size = m.size + Len(w)],
               n |-> Len(w), allocs |-> al]

RECURSIVE MemFlush(_, _)
\* PICOZIP__FLUSH for each write of ws in turn when the write callback is
\* picozip__mem_write
MemFlush(ws, acc) ==
    IF ws = <<>> \/ acc.failed THEN acc
    ELSE LET w == Head(ws)
             r == picozip__mem_write(acc.mem, w, acc.allocs)
         IN  MemFlush(Tail(ws),
                      [bytes    |-> acc.bytes \o SubSeq(w, 1, r.n),
                       advanced |-> IF r.n # Len(w) THEN acc.advanced
                                    ELSE acc.advanced + Len(w),
                       failed   |-> r.n # Len(w),
                       mem      |-> r.mem,
                       allocs   |-> r.allocs])

\* picozip_get_mem: *mem and the size it returns
picozip_get_mem == [mem |-> mem.data, size |-> mem.size]

\* the session picozip_new_mem returns: its allocator is malloc(), which the byte
\* vector shares with the ledger and which may run out
InitMem ==
    /\ picozip_new /\ SingleThreaded /\ room = Unlimited
    /\ allocs \in {Unlimited} \cup (0 .. 12)

\* picozip_new_entry_mem_ex on an in-memory session
MemNewEntry ==
    \E it \in Items, ub \in StoreOutcomes, fr \in WildFrees :
    \E crc \in {Not32(picozip__crc32(Bytes(it.data, it.size), PICOZIP__CRC_START))} :
    \E entry \in {PopulateEntry(it.path, it.mod_time, it.comment, it.comment_len, 0, crc,
                                it.size, offset)} :
    \E a \in {picozip__alloc_entry(entries, num_entries, entry, ub, allocs)} :
    \E f \in {MemFlush(picozip__write_local_entry(entry) \o <<Bytes(it.data, it.size)>>,
                       [bytes |-> <<>>, advanced |-> 0, failed |-> FALSE, mem |-> mem,
                        allocs |-> a.allocs])} :
    \E r \in {picozip__free_last_entry(a.num_entries, fr)} :
        /\ ~crashed /\ callbacks
        /\ num_entries < MaxEntries
        /\ UNCHANGED <<room, ends, finalized, callbacks, files, threads, tmbuf, opened>>
        /\ IF a.failed
           THEN /\ last' = Call("add", PICOZIP_ENOMEM, [refused |-> FALSE])
                /\ entries' = a.entries
                /\ allocs' = a.allocs
                /\ UNCHANGED <<offset, num_entries, sink, mem, crashed, added>>
           ELSE IF a.died
           THEN /\ last' = Call("add", NoReturn, [refused |-> FALSE])
                /\ crashed' = TRUE
                /\ allocs' = a.allocs
                /\ UNCHANGED <<offset, num_entries, entries, sink, mem, added>>
           ELSE /\ offset' = offset + f.advanced
                /\ sink' = sink \o f.bytes
                /\ mem' = f.mem
                /\ allocs' = f.allocs
                /\ entries' = a.entries
                /\ crashed' = (f.failed /\ r.died)
                /\ num_entries' = IF f.failed /\ ~r.died THEN r.num_entries
                                  ELSE a.num_entries
                /\ last' = Call("add",
                                IF ~f.failed THEN PICOZIP_OK
                                ELSE IF r.died THEN NoReturn ELSE PICOZIP_EIO,
                                [refused |-> f.failed])
                /\ added' = IF f.failed THEN added
                            ELSE Append(added,
                                        [path |-> it.path,
                                         content |-> Bytes(it.data, it.size),
                                         mod_time |-> it.mod_time,
                                         comment |-> Bytes(it.comment, it.comment_len),
                                         streamed |-> FALSE])

\* picozip_end_ex on an in-memory session
MemEnd ==
    \E c \in EndComments, g \in ReadOutcomes :
    \E es \in {Ledger(entries, num_entries)} :
    \E dies \in {Readable(es) # es /\ g = "crash"} :
    \E f \in {MemFlush(IF dies THEN CentralDirectory(Readable(es))
                       ELSE CentralDirectory(es)
                                \o <<EocdRecord(num_entries, CdSize(es), offset,
                                                c.comment_len)>>
                                \o (IF c.comment # NULL
                                    THEN <<Bytes(c.comment, c.comment_len)>> ELSE <<>>),
                       [bytes |-> <<>>, advanced |-> 0, failed |-> FALSE, mem |-> mem,
                        allocs |-> allocs])} :
        /\ ~crashed /\ callbacks
        /\ ends < MaxEnds
        /\ ends' = ends + 1
        /\ offset' = offset + f.advanced
        /\ sink' = sink \o f.bytes
        /\ mem' = f.mem
        /\ allocs' = f.allocs
        /\ crashed' = (dies /\ ~f.failed)
        /\ last' = Call("end",
                        IF f.failed THEN PICOZIP_EIO
                        ELSE IF dies THEN NoReturn ELSE PICOZIP_OK,
                        [refused |-> f.failed])
        /\ finalized' = (finalized \/ (~f.failed /\ ~dies))
        /\ UNCHANGED <<num_entries, entries, room, added, callbacks, files, threads,
                       tmbuf, opened>>

\* a program that keeps its archive in memory
SpecMem == InitMem /\ [][MemNewEntry \/ MemEnd]_vars

(* ---------------------------------------------------------------------- *)
(* Adding entries by the path of their source file                         *)
(* ---------------------------------------------------------------------- *)
\* a new session whose sink and whose allocator can both give out
InitPath == picozip_new /\ SingleThreaded /\ room \in Rooms /\ allocs \in {Unlimited, 1, 2}

\* picozip_new_entry_path on a source file that fopen() may fail to open and
\* fstat() may fail to examine
NewEntryPathOpen ==
    \E it \in Items, stat_ok \in BOOLEAN, ub \in StoreOutcomes, fr \in FreeOutcomes :
    \E fptr \in {NULL, SourceOf(it)} :
        /\ ~crashed
        /\ callbacks
        /\ UNCHANGED <<callbacks, files, threads, tmbuf, mem>>
        /\ picozip_new_entry_path(TheFile, it.path, SourcePath, fptr, it.comment,
                                  it.comment_len, stat_ok, ub, fr)

\* a program that adds its entries by path, with every failure the call can meet
SpecPath == InitPath /\ [][NewEntryPathOpen \/ End]_vars

(* ---------------------------------------------------------------------- *)
(* Properties                                                              *)
(* ---------------------------------------------------------------------- *)
\* the call that has just returned was an add-entry call / a finalize call
JustAdded == last.op = "add" /\ ~crashed
JustEnded == last.op = "end" /\ ~crashed

\* the bytes the call that has just returned put into the sink
Emitted == SubSeq(sink, last.pre.sink_len + 1, Len(sink))

\* C1: once a finalize call has succeeded on a session, every later finalize call
\* fails with an error and emits no bytes, so that the stream never holds a second
\* central directory or a second end-of-central-directory record.
FinalizeOnlyOnce ==
    (JustEnded /\ last.pre.finalized) =>
        (last.ret # PICOZIP_OK /\ Emitted = <<>>)

\* C2: once a finalize call has succeeded, every add-entry call fails with an
\* error, appends nothing to the ledger and writes nothing to the stream.
NoAddAfterFinalize ==
    (JustAdded /\ last.pre.finalized) =>
        (last.ret # PICOZIP_OK
         /\ num_entries = last.pre.num_entries
         /\ Emitted = <<>>)

\* the entry record an added item leaves in the ledger when its local block starts
\* at offset at
EntryOf(rec, at) ==
    PopulateEntry(rec.path, rec.mod_time, rec.comment, Len(rec.comment),
                  IF rec.streamed THEN PICOZIP__FLAG_DATADESC ELSE 0,
                  Not32(picozip__crc32(rec.content, PICOZIP__CRC_START)),
                  Len(rec.content), at)

\* the local block of an added item: local header, filename, extra field, content,
\* and for a streamed item, whose header carries no checksum and no sizes, the data
\* descriptor
LocalBlockOf(rec, at) ==
    LET e == EntryOf(rec, at)
        h == IF rec.streamed
             THEN [e EXCEPT !.crc32 = Zero32, !.comp_size = 0, !.uncomp_size = 0]
             ELSE e
    IN  LocalHeader(h) \o rec.path \o TimestampField(rec.mod_time) \o rec.content
            \o (IF rec.streamed THEN DataDescriptor(e) ELSE <<>>)

\* the central-directory record of an added item
CentralRecordOf(rec, at) ==
    CentralHeader(EntryOf(rec, at)) \o rec.path \o TimestampField(rec.mod_time)
        \o rec.comment

RECURSIVE LocalBlocks(_, _)
\* the local blocks of the items recs in order, the first one at offset at
LocalBlocks(recs, at) ==
    IF recs = <<>> THEN <<>>
    ELSE LET b == LocalBlockOf(Head(recs), at)
         IN  b \o LocalBlocks(Tail(recs), at + Len(b))

RECURSIVE CentralRecords(_, _)
\* the central-directory records of the items recs in order, the first of which has
\* its local block at offset at
CentralRecords(recs, at) ==
    IF recs = <<>> THEN <<>>
    ELSE CentralRecordOf(Head(recs), at)
             \o CentralRecords(Tail(recs), at + Len(LocalBlockOf(Head(recs), at)))

\* N add-entry calls have succeeded and the first finalize call has just succeeded
AddsThenFinalize == JustEnded /\ last.ret = PICOZIP_OK /\ last.pre.ends = 0

\* C3: after N successful add-entry calls and one successful finalize the stream is
\* exactly the N local blocks in add order, then the N central-directory records in
\* the same order, the k-th carrying the filename and the local-header offset of the
\* k-th added entry, then one end-of-central-directory record.
StreamLayout ==
    AddsThenFinalize =>
        LET locals   == LocalBlocks(added, 0)
            centrals == CentralRecords(added, 0)
        IN  sink = locals \o centrals
                     \o EocdRecord(Len(added), Len(centrals), Len(locals), Len(last.arg))
                     \o last.arg

RECURSIVE LocalLength(_)
\* the sum over the items of 30 + filename length + 9 + content length, + 16 if
\* streamed
LocalLength(recs) ==
    IF recs = <<>> THEN 0
    ELSE 30 + Len(Head(recs).path) + 9 + Len(Head(recs).content)
            + (IF Head(recs).streamed THEN 16 ELSE 0) + LocalLength(Tail(recs))

RECURSIVE CentralLength(_)
\* the sum over the items of 46 + filename length + 9 + comment length
CentralLength(recs) ==
    IF recs = <<>> THEN 0
    ELSE 46 + Len(Head(recs).path) + 9 + Len(Head(recs).comment)
            + CentralLength(Tail(recs))

\* C4: after N added entries and finalize, the number of bytes emitted to the sink
\* is the sum of the local block lengths, plus the sum of the central-directory
\* record lengths, plus 22, plus the length of the archive comment.
TotalLength ==
    AddsThenFinalize =>
        Len(sink) = LocalLength(added) + CentralLength(added) + 22 + Len(last.arg)

\* the on-disk size of the local block of a ledger entry: header, filename, extra
\* field, content, and the data descriptor when the entry is streamed
BlockSize(e) ==
    30 + e.filename_len + e.extra_field_len + e.comp_size
       + (IF (e.flags \div PICOZIP__FLAG_DATADESC) % 2 = 1 THEN 16 ELSE 0)

\* C5: in every state of a session the first ledger entry's header_offset is 0 and
\* the header_offset of every further ledger entry is that of the entry before it
\* plus the on-disk size of that entry's local block: no gap and no overlap.
ConsecutiveOffsets ==
    ~crashed =>
        LET es == Ledger(entries, num_entries)
        IN  /\ es # <<>> => Deref(es[1]).header_offset = 0
            /\ \A i \in 1 .. Len(es) - 1 :
                   Deref(es[i + 1]).header_offset
                       = Deref(es[i]).header_offset + BlockSize(Deref(es[i]))

\* the number four little-endian bytes encode
Le32(b) == b[1] + 256 * b[2] + 65536 * b[3] + 16777216 * b[4]

\* the number two little-endian bytes encode
Le16(b) == b[1] + 256 * b[2]

\* the end-of-central-directory record a successful finalize call has just written:
\* the 22 bytes before the archive comment
WrittenEocd ==
    SubSeq(Emitted, Len(Emitted) - Len(last.arg) - 21, Len(Emitted) - Len(last.arg))

\* the bytes of the central-directory records a successful finalize call has just
\* written
WrittenDirectory == SubSeq(Emitted, 1, Len(Emitted) - Len(last.arg) - 22)

\* C6: the end-of-central-directory record a finalize call writes declares as
\* central-directory size the number of bytes written for the central-directory
\* records, and as central-directory offset the session's write offset, which is
\* also the stream position, at the moment the central directory began.
DeclaredDirectory ==
    (JustEnded /\ last.ret = PICOZIP_OK) =>
        /\ Le32(SubSeq(WrittenEocd, 13, 16)) = Len(WrittenDirectory)
        /\ Le32(SubSeq(WrittenEocd, 17, 20)) = last.pre.offset
        /\ Le32(SubSeq(WrittenEocd, 17, 20)) = last.pre.sink_len

\* the generator polynomial of the ZIP/PNG CRC-32, reflected: 0xEDB88320
ReferencePolynomial == <<\H20, \H83, \HB8, \HED>>

\* w >> 1
Shr1(w) ==
    << w[1] \div 2 + 128 * (w[2] % 2), w[2] \div 2 + 128 * (w[3] % 2),
       w[3] \div 2 + 128 * (w[4] % 2), w[4] \div 2 >>

RECURSIVE ReferenceBits(_, _)
\* n steps of the bitwise CRC: shift right, and subtract the polynomial when the
\* bit shifted out is set
ReferenceBits(w, n) ==
    IF n = 0 THEN w
    ELSE ReferenceBits(IF w[1] % 2 = 1 THEN Xor32(Shr1(w), ReferencePolynomial)
                       ELSE Shr1(w),
                       n - 1)

\* the reference table: entry i is the bitwise CRC of the single byte i
ReferenceTable == [i \in 0 .. 255 |-> ReferenceBits(<<i, 0, 0, 0>>, 8)]

RECURSIVE ReferenceBytes(_, _)
\* the CRC register after the bytes b, one table look-up per byte
ReferenceBytes(w, b) ==
    IF b = <<>> THEN w
    ELSE ReferenceBytes(Xor32(Shr8(w), ReferenceTable[Xor8(w[1], Head(b))]), Tail(b))

\* the reference ZIP/PNG CRC-32 of the bytes b: the register starts at 0xFFFFFFFF
\* and the result is its complement
ReferenceCrc32(b) == Not32(ReferenceBytes(<<255, 255, 255, 255>>, b))

\* the central-directory header finalize writes for the last ledger entry
LastCentralHeader == CentralHeader(Deref(entries.data[num_entries]))

\* C7: for content b added with the known-size protocol, the CRC-32 field of the
\* entry's local header and of its central-directory record is the reference
\* ZIP/PNG CRC-32 of b.
ChecksumField ==
    (JustAdded /\ last.ret = PICOZIP_OK /\ ~last.arg.streamed) =>
        /\ SubSeq(Emitted, 15, 18) = ReferenceCrc32(last.arg.content)
        /\ SubSeq(LastCentralHeader, 17, 20) = ReferenceCrc32(last.arg.content)

\* the item is a directory marker: a path ending in '/' and no content
IsDirectoryMarker(rec) == rec.path[Len(rec.path)] = 47 /\ rec.content = <<>>

\* C8: adding a directory marker with the known-size protocol returns PICOZIP_OK
\* and appends one ledger entry whose compressed size, uncompressed size and CRC-32
\* fields are 0 in the local header and in the central-directory record.
DirectoryMarkerFields ==
    (JustAdded /\ ~last.arg.streamed /\ IsDirectoryMarker(last.arg)) =>
        /\ last.ret = PICOZIP_OK
        /\ num_entries = last.pre.num_entries + 1
        /\ SubSeq(Emitted, 15, 26) = Zero32 \o Zero32 \o Zero32
        /\ SubSeq(LastCentralHeader, 17, 28) = Zero32 \o Zero32 \o Zero32

\* one entry test.txt with the content "hello world!" and no comment was added with
\* the known-size protocol to a new archive, which was then finalized with no
\* comment
OneEntryScenario ==
    /\ AddsThenFinalize
    /\ last.arg = <<>>
    /\ Len(added) = 1
    /\ added[1].path = test_txt
    /\ added[1].content = hello_world
    /\ added[1].comment = <<>>
    /\ ~added[1].streamed

\* C9 as the specification states it: the scenario emits 128 bytes, a 51-byte local
\* block, a 55-byte central-directory record and the 22-byte end record, whose
\* entry counts are 1, central-directory size 55 and central-directory offset 51.
OneEntryArchiveAsStated ==
    OneEntryScenario =>
        /\ Len(sink) = 128
        /\ SubSeq(sink, 52, 55) = PICOZIP__CENTRAL_MAGIC
        /\ SubSeq(sink, 107, 110) = PICOZIP__EOCD_MAGIC
        /\ Le16(SubSeq(WrittenEocd, 9, 10)) = 1
        /\ Le16(SubSeq(WrittenEocd, 11, 12)) = 1
        /\ Le32(SubSeq(WrittenEocd, 13, 16)) = 55
        /\ Le32(SubSeq(WrittenEocd, 17, 20)) = 51

\* C9: the scenario emits 144 bytes: a 59-byte local block (30 + 8 bytes of filename
\* + 9 + 12), a 63-byte central-directory record (46 + 8 + 9 + 0) and the 22-byte
\* end record, whose entry counts are 1, central-directory size 63 and
\* central-directory offset 59.
OneEntryArchive ==
    OneEntryScenario =>
        /\ Len(sink) = 144
        /\ SubSeq(sink, 1, 4) = PICOZIP__LOCAL_MAGIC
        /\ SubSeq(sink, 60, 63) = PICOZIP__CENTRAL_MAGIC
        /\ SubSeq(sink, 123, 126) = PICOZIP__EOCD_MAGIC
        /\ Le16(SubSeq(sink, 131, 132)) = 1
        /\ Le16(SubSeq(sink, 133, 134)) = 1
        /\ Le32(SubSeq(sink, 135, 138)) = 63
        /\ Le32(SubSeq(sink, 139, 142)) = 59

\* the scenario of C9 has run to its end
OneEntryArchiveReached == OneEntryScenario /\ Len(sink) = 144

\* a finalize call has just succeeded on a new session with no entries
EmptyScenario ==
    /\ JustEnded
    /\ last.ret = PICOZIP_OK
    /\ last.pre.sink_len = 0
    /\ last.pre.offset = 0
    /\ last.pre.num_entries = 0

InvalidArgumentsRejected ==
    [][InvalidCall => /\ last'.ret = PICOZIP_EINVAL
                      /\ UNCHANGED <<num_entries, entries, offset, sink, room, allocs>>]_vars

\* an invalid call has returned in a session that holds an entry and whose sink and
\* allocator would both have served a callback
InvalidCallReturned ==
    /\ last.op \in {"add", "end"}
    /\ last.ret = PICOZIP_EINVAL
    /\ last.pre.num_entries = 1
    /\ num_entries = 1
    /\ room # Unlimited /\ room > 0
    /\ allocs # Unlimited /\ allocs > 0

AllocationFailureReported ==
    [][(/\ last'.op = "add"
        /\ allocs # Unlimited
        /\ allocs < (IF entries.cap = 0 THEN 2 ELSE 1))
       => /\ last'.ret = PICOZIP_ENOMEM
          /\ UNCHANGED <<sink, room, offset, num_entries>>]_vars

\* an add-entry call has returned PICOZIP_ENOMEM in a session that holds an entry
\* (the entry record could not be allocated)
OutOfMemoryReturned ==
    /\ JustAdded
    /\ last.ret = PICOZIP_ENOMEM
    /\ last.pre.num_entries = 1
    /\ last.pre.offset > 0
    /\ allocs = 0

\* C15: a sink write whose callback returns a count different from the requested
\* length makes the add-entry or finalize call return PICOZIP_EIO at once, with no
\* further sink write; a call returns PICOZIP_OK only if every one of its writes was
\* accepted in full. A write of which the sink took a part shows as bytes in the sink
\* that the write offset does not count; what the sink holds of a failed add is a
\* prefix of the entry's local block, of a successful add the whole block.
ShortWriteIsFatal ==
    last.op \in {"add", "end"} =>
        /\ Len(Emitted) # offset - last.pre.offset =>
               (~crashed /\ last.ret = PICOZIP_EIO)
        /\ (~crashed /\ last.ret = PICOZIP_OK) =>
               /\ Len(Emitted) = offset - last.pre.offset
               /\ last.op = "add" => Emitted = LocalBlockOf(last.arg, last.pre.offset)
        /\ (~crashed /\ last.ret = PICOZIP_EIO /\ last.op = "add") =>
               Emitted = SubSeq(LocalBlockOf(last.arg, last.pre.offset), 1, Len(Emitted))

(* ---------------------------------------------------------------------- *)
(* Streamed entries                                                        *)
(* ---------------------------------------------------------------------- *)
\* C16: an entry added with the streamed protocol has flags bit 3 set and CRC-32 and
\* both sizes zero in its local header, and its content is followed directly by a
\* 16-byte data descriptor (magic 0x08074b50) with the CRC-32 and the sizes of the
\* content read; a known-size entry has flags 0 and no data descriptor
StreamedEntryLayout ==
    (JustAdded /\ last.ret = PICOZIP_OK) =>
        LET content == last.arg.content
            start   == PICOZIP__LOCAL_HEADER_SIZE + Le16(SubSeq(Emitted, 27, 28))
                           + Le16(SubSeq(Emitted, 29, 30))
            flags   == Le16(SubSeq(Emitted, 7, 8))
        IN  /\ SubSeq(Emitted, start + 1, start + Len(content)) = content
            /\ IF last.arg.streamed
               THEN /\ (flags \div PICOZIP__FLAG_DATADESC) % 2 = 1
                    /\ SubSeq(Emitted, 15, 26) = Zero32 \o Zero32 \o Zero32
                    /\ Len(Emitted) = start + Len(content) + PICOZIP__DATADESC_SIZE
                    /\ SubSeq(Emitted, start + Len(content) + 1, Len(Emitted))
                           = PICOZIP__DATADESC_MAGIC \o ReferenceCrc32(content)
                                 \o WRITE_LE32(Len(content)) \o WRITE_LE32(Len(content))
               ELSE /\ flags = 0
                    /\ Len(Emitted) = start + Len(content)

\* C17: after a successful streamed add the ledger entry's crc32, compressed size and
\* uncompressed size hold the true values of the content, not the zero placeholders
\* of the local header, and the central-directory record finalize writes for the
\* entry carries the CRC-32 and sizes of the entry's data descriptor, with flags
\* bit 3 set
BackfilledEntry ==
    (JustAdded /\ last.ret = PICOZIP_OK /\ last.arg.streamed) =>
        LET entry   == Deref(entries.data[num_entries])
            content == last.arg.content
            desc    == SubSeq(Emitted, Len(Emitted) - PICOZIP__DATADESC_SIZE + 1,
                              Len(Emitted))
        IN  /\ entry.crc32 = ReferenceCrc32(content)
            /\ entry.comp_size = Len(content)
            /\ entry.uncomp_size = Len(content)
            /\ SubSeq(LastCentralHeader, 17, 28) = SubSeq(desc, 5, 16)
            /\ (Le16(SubSeq(LastCentralHeader, 9, 10)) \div PICOZIP__FLAG_DATADESC) % 2 = 1

\* C18: if the content source fails while a streamed add reads it, the add returns
\* an error, the entry count is as before the call and no data descriptor is
\* written: a read failure is never reported as a successful add of truncated
\* content
ReadErrorReported ==
    [][NewEntryFileReadError =>
           /\ last'.ret # PICOZIP_OK
           /\ num_entries' = num_entries
           /\ SubSeq(sink', Len(sink') - PICOZIP__DATADESC_SIZE + 1,
                     Len(sink') - PICOZIP__DATADESC_SIZE + 4) # PICOZIP__DATADESC_MAGIC]_vars

(* ---------------------------------------------------------------------- *)
(* The write offset and the length fields                                  *)
(* ---------------------------------------------------------------------- *)
\* C19: in every state of an open session the write offset equals the number of
\* bytes the sink has accepted so far, short writes included, and no add-entry or
\* finalize call, successful or failed, has left it below its value before the call
OffsetCountsAcceptedBytes ==
    ~crashed =>
        /\ offset = Len(sink)
        /\ offset >= last.pre.offset

\* C20: for every entry that add-entry accepts, the 16-bit filename-length,
\* extra-field-length and comment-length fields of its local header and of its
\* central-directory record equal the numbers of filename, extra-field and comment
\* bytes that are emitted after the fixed part: of the bytes between the fixed part
\* and the content (in the central-directory record: after the fixed part), the
\* first ones, as many as the path has, are filename bytes, the next ones, as many
\* as the timestamp field has, extra-field bytes, and the rest comment bytes
LengthFieldsCountEmittedBytes ==
    (JustAdded /\ last.ret = PICOZIP_OK) =>
        LET rec      == last.arg
            var      == Len(Emitted) - PICOZIP__LOCAL_HEADER_SIZE - Len(rec.content)
                            - (IF rec.streamed THEN PICOZIP__DATADESC_SIZE ELSE 0)
            name     == Min(var, Len(rec.path))
            extra    == var - name
            cw       == CentralWrites(Deref(entries.data[num_entries]))
            cname    == Min(Len(cw[2]), Len(rec.path))
            cextra   == Min(Len(cw[2]) - cname, Len(TimestampField(rec.mod_time)))
            ccomment == Len(cw[2]) - cname - cextra
        IN  /\ Le16(SubSeq(Emitted, 27, 28)) = name
            /\ Le16(SubSeq(Emitted, 29, 30)) = extra
            /\ Le16(SubSeq(cw[1], 29, 30)) = cname
            /\ Le16(SubSeq(cw[1], 31, 32)) = cextra
            /\ Le16(SubSeq(cw[1], 33, 34)) = ccomment

(* ---------------------------------------------------------------------- *)
(* Local headers and central-directory records                             *)
(* ---------------------------------------------------------------------- *)
\* C21: for every entry, the fields of its local header have byte-identical
\* counterparts in its central-directory record: version needed (0x0014), flags,
\* method (0), DOS time and date, filename, the 9-byte extended-timestamp extra
\* field, and for known-size entries the CRC-32 and both sizes; the entry comment
\* is emitted only in the central-directory record, never in the local block.
LocalAndCentralAgree ==
    AddsThenFinalize =>
        \A k \in 1 .. Len(added) :
            LET rec  == added[k]
                lo   == LocalLength(SubSeq(added, 1, k - 1))
                co   == last.pre.sink_len + CentralLength(SubSeq(added, 1, k - 1))
                meta == Len(rec.path) + 9
                L    == SubSeq(sink, lo + 1, lo + 30 + meta)
                C    == SubSeq(sink, co + 1, co + 46 + meta + Len(rec.comment))
            IN  /\ co + 46 + meta + Len(rec.comment) <= Len(sink) - 22 - Len(last.arg)
                /\ SubSeq(L, 1, 4) = PICOZIP__LOCAL_MAGIC
                /\ SubSeq(C, 1, 4) = PICOZIP__CENTRAL_MAGIC
                /\ SubSeq(L, 5, 6) = <<20, 0>>
                /\ SubSeq(L, 9, 10) = <<0, 0>>
                /\ SubSeq(C, 7, 16) = SubSeq(L, 5, 14)
                /\ ~rec.streamed => SubSeq(C, 17, 28) = SubSeq(L, 15, 26)
                /\ SubSeq(C, 29, 32) = SubSeq(L, 27, 30)
                /\ SubSeq(L, 31, 30 + meta) = rec.path \o TimestampField(rec.mod_time)
                /\ SubSeq(C, 47, 46 + meta) = SubSeq(L, 31, 30 + meta)
                /\ SubSeq(C, 47 + meta, Len(C)) = rec.comment
                /\ SubSeq(sink, lo + 31 + meta, lo + 30 + meta + Len(rec.content))
                       = rec.content

(* ---------------------------------------------------------------------- *)
(* DOS time and date                                                       *)
(* ---------------------------------------------------------------------- *)
\* calendar times at the edges of the DOS range, as localtime() returns them
EdgeTms ==
    { [tm_year |-> y, tm_mon |-> m, tm_mday |-> d, tm_hour |-> h, tm_min |-> mi,
       tm_sec |-> s] :
        y \in {-100, 69, 79, 80, 124, 207}, m \in {0, 11}, d \in {1, 31}, h \in {0, 23},
        mi \in {0, 59}, s \in {0, 1, 59} }

\* C22: an entry whose modification time falls, in local time, in a year before
\* 1980 has DOS time 0 and DOS date 33 in its local header and in its
\* central-directory record, while its extra field carries the unclamped time as
\* 32 bits; for the years 1980 to 2107 the fields are hour<<11 | minute<<5 |
\* second>>1 and (year-1980)<<9 | month<<5 | day, each component in its own bits.
DosFields ==
    /\ (JustAdded /\ last.ret = PICOZIP_OK) =>
           LET t    == last.arg.mod_time
               tm   == localtime(t)
               fn   == Len(last.arg.path)
               L    == SubSeq(Emitted, 11, 14)
               C    == SubSeq(CentralHeader(EntryOf(last.arg, last.pre.offset)), 13, 16)
               time == Le16(SubSeq(L, 1, 2))
               date == Le16(SubSeq(L, 3, 4))
           IN  /\ C = L
               /\ SubSeq(Emitted, 31 + fn, 39 + fn)
                      = <<\H55, \H54, 5, 0, 1>>
                          \o [i \in 1 .. 4 |-> (t \div (256 ^ (i - 1))) % 256]
               /\ tm.tm_year + 1900 < 1980 => time = 0 /\ date = 33
               /\ tm.tm_year + 1900 \in 1980 .. 2107 =>
                      /\ time \div 2048 = tm.tm_hour
                      /\ (time \div 32) % 64 = tm.tm_min
                      /\ time % 32 = tm.tm_sec \div 2
                      /\ date \div 512 = tm.tm_year + 1900 - 1980
                      /\ (date \div 32) % 16 = tm.tm_mon + 1
                      /\ date % 32 = tm.tm_mday
    /\ \A tm \in EdgeTms :
           LET c == ClampTm(tm)
           IN  /\ tm.tm_year < 80 => DosTime(c) = 0 /\ DosDate(c) = 33
               /\ tm.tm_year >= 80 =>
                      /\ DosTime(c) = tm.tm_hour * 2048 + tm.tm_min * 32 + tm.tm_sec \div 2
                      /\ DosTime(c) \div 2048 = tm.tm_hour
                      /\ (DosTime(c) \div 32) % 64 = tm.tm_min
                      /\ DosDate(c) \div 512 = tm.tm_year - 80
                      /\ (DosDate(c) \div 32) % 16 = tm.tm_mon + 1
                      /\ DosDate(c) % 32 = tm.tm_mday

\* entries stamped 1969-12-31 23:59:59 and 1979-12-31 23:59:59 were clamped, and
\* one stamped 2024-11-02 15:05:52 carries time 0x78BA and date 0x5962
DosFieldsWritten ==
    /\ JustAdded /\ last.ret = PICOZIP_OK
    /\ Len(added) = 2
    /\ added[1].mod_time \in {-1, 315532799}
    /\ SubSeq(sink, 11, 14) = <<0, 0, 33, 0>>
    /\ SubSeq(sink, 39, 47) = <<\H55, \H54, 5, 0, 1>>
                                \o (IF added[1].mod_time = -1 THEN <<255, 255, 255, 255>>
                                    ELSE <<\H7F, \HA6, \HCE, \H12>>)
    /\ last.arg.mod_time = Now
    /\ SubSeq(Emitted, 11, 14) = <<\HBA, \H78, \H62, \H59>>

(* ---------------------------------------------------------------------- *)
(* Threads and sessions                                                    *)
(* ---------------------------------------------------------------------- *)
\* what the add-entry call of thread t is recorded as
AddedBy(t) ==
    LET it == threads[t].item
    IN  [path |-> it.path, content |-> Bytes(it.data, it.size), mod_time |-> it.mod_time,
         comment |-> Bytes(it.comment, it.comment_len), streamed |-> FALSE]

\* both threads have returned from their calls
BothDone == threads # <<>> /\ \A t \in DOMAIN threads : threads[t].pc = "done"

\* C23: calls with the same picozip_file pointer are thread safe: when two threads
\* run add-entry calls concurrently on one session, every interleaving ends with
\* both entries in the ledger in distinct slots, the entry count increased by two,
\* each entry's header_offset equal to the stream position where its own local
\* header starts, and no local block interleaved with or overwritten by the other.
\* (Stated for the runs in which every pointer stored past the end of the pointer
\* array is read back intact, so that a failure is one of the threads' making.)
ThreadSafeAdds ==
    (BothDone /\ threads[1].file = threads[2].file) =>
        LET F == files[threads[1].file]
        IN  (\A i \in 1 .. Len(F.entries.data) : F.entries.data[i] # Garbage) =>
                /\ F.num_entries = 2
                /\ {F.entries.data[1], F.entries.data[2]} = {[thread |-> 1], [thread |-> 2]}
                /\ F.offset = Len(F.sink)
                /\ \E o \in {<<1, 2>>, <<2, 1>>} :
                       LET first == LocalBlockOf(AddedBy(o[1]), 0)
                       IN  /\ F.sink = first \o LocalBlockOf(AddedBy(o[2]), Len(first))
                           /\ threads[o[1]].entry.header_offset = 0
                           /\ threads[o[2]].entry.header_offset = Len(first)

\* C24: distinct sessions are independent: when the operations of two different
\* sessions are interleaved arbitrarily, as by two threads, each session ends with
\* the same ledger, write offset and emitted byte stream as when its own operations
\* run alone; no mutable state is shared between sessions.
IndependentSessions ==
    (BothDone /\ threads[1].file # threads[2].file) =>
        \A t \in DOMAIN threads :
            LET F == files[threads[t].file]
            IN  /\ F.entries.data = <<[thread |-> t]>>
                /\ F.num_entries = 1
                /\ threads[t].entry = EntryOf(AddedBy(t), 0)
                /\ F.offset = Len(LocalBlockOf(AddedBy(t), 0))
                /\ F.sink = LocalBlockOf(AddedBy(t), 0)

(* ---------------------------------------------------------------------- *)
(* Release                                                                 *)
(* ---------------------------------------------------------------------- *)
\* a release call on a session that had not been released before has just ended
JustFreed == last.op = "free" /\ last.ret # PICOZIP_EINVAL /\ (crashed => callbacks)

\* C25: release is accepted both in the Open and in the Finalized state and returns
\* OK; it never writes to the sink: releasing an Open session that holds entries
\* emits no central-directory record and no end-of-central-directory record, so the
\* sink contents are exactly what they were before the call.
ReleaseWritesNothing ==
    JustFreed =>
        /\ last.ret = PICOZIP_OK
        /\ ~crashed
        /\ Len(sink) = last.pre.sink_len

\* C26: after release returns OK, every block the session obtained from the alloc
\* callback has been passed to the free callback exactly once: the session record
\* itself, the ledger array, and every entry record including those of rolled-back
\* adds (the blocks obtained number one for the session record plus what the
\* allocator has granted since).
EverythingFreed ==
    (JustFreed /\ last.ret = PICOZIP_OK) =>
        /\ last.arg.file
        /\ last.arg.array = (allocs < Granted)
        /\ Len(last.arg.entries) + (IF last.arg.array THEN 1 ELSE 0)
               + (IF last.arg.file THEN 1 ELSE 0)
             = 1 + (Granted - allocs)

\* C27: Released is terminal and nothing crashes: after release has returned OK,
\* every further operation on the same session pointer (add-entry, finalize,
\* release) returns an error result and invokes none of the write, alloc or free
\* callbacks, which release has cleared.
ReleasedIsTerminal ==
    [][~callbacks =>
          /\ ~crashed'
          /\ last'.ret \notin {PICOZIP_OK, NoReturn}
          /\ ~callbacks'
          /\ UNCHANGED <<sink, room, allocs, offset, num_entries>>]_vars

(* ---------------------------------------------------------------------- *)
(* picozip_new                                                             *)
(* ---------------------------------------------------------------------- *)
\* C28: picozip_new returns EINVAL when the output pointer or any of the write,
\* alloc and free callbacks is null, and ENOMEM when the alloc callback fails,
\* leaving the output pointer unset in both cases; on success the new session has
\* write offset 0 and an empty ledger, and it has issued no sink write.
NewSession ==
    last.op = "new" =>
        LET a     == last.arg
            unset == a.out = (IF a.ofile = NULL THEN NULL ELSE a.ofile[1])
        IN  IF a.ofile = NULL \/ a.wr = NULL \/ a.al = NULL \/ a.fr = NULL
            THEN last.ret = PICOZIP_EINVAL /\ unset /\ ~callbacks
            ELSE IF ~a.granted
            THEN last.ret = PICOZIP_ENOMEM /\ unset /\ ~callbacks /\ allocs = 0
            ELSE /\ last.ret = PICOZIP_OK
                 /\ a.out = TheFile
                 /\ callbacks
                 /\ offset = 0
                 /\ num_entries = 0
                 /\ Ledger(entries, num_entries) = <<>>
                 /\ entries.cap = 0
                 /\ sink = <<>>
                 /\ room \in {Unlimited, 33}

\* picozip_new has just zeroed a session record that held other data, and put its
\* address in a variable that held a stale pointer
SessionCreated ==
    /\ last.op = "new"
    /\ last.ret = PICOZIP_OK
    /\ last.arg.ofile = <<<<"stale">>>>
    /\ last.arg.out = TheFile
    /\ last.pre.offset = 7
    /\ offset = 0
    /\ room = 33
    /\ allocs = 2

(* ---------------------------------------------------------------------- *)
(* Continuing a checksum                                                   *)
(* ---------------------------------------------------------------------- *)
\* C29: the checksum routine is continuable: feeding the consecutive chunks of a
\* byte sequence to picozip__crc32, each call seeded with the result of the call
\* before and the first with 0, gives what one call over the whole sequence seeded
\* with 0 gives, which is the reference CRC-32 of the sequence; empty chunks
\* included, and for the empty sequence the result is 0.
CrcContinuable ==
    last.op = "crc32" =>
        LET b == SubSeq(last.arg.buffer, 1, last.arg.done)
        IN  /\ last.ret = picozip__crc32(b, PICOZIP__CRC_START)
            /\ last.ret = ReferenceCrc32(b)
            /\ (b = <<>> => last.ret = Zero32)
            /\ (last.arg.ptr = <<>> => last.ret = last.arg.crc)

\* the last byte of "123456789" has just been added to the checksum of the eight
\* bytes before it, and the result is the catalogue's 0xCBF43926
CrcContinued ==
    /\ last.op = "crc32"
    /\ last.arg.buffer = <<49, 50, 51, 52, 53, 54, 55, 56, 57>>
    /\ last.arg.done = 9
    /\ last.arg.ptr = <<57>>
    /\ last.arg.crc # PICOZIP__CRC_START
    /\ last.ret = <<38, 57, 244, 203>>

(* ---------------------------------------------------------------------- *)
(* Streamed and known-size entries                                         *)
(* ---------------------------------------------------------------------- *)
\* C30: the two write protocols agree: for the same content bytes, filename,
\* modification time and comment, the entry the streamed protocol builds and the
\* entry the known-size protocol builds give central-directory records with the
\* same CRC-32, compressed size and uncompressed size, whatever chunks the content
\* is read in; the records differ only in flags bit 3.
ProtocolsAgree ==
    (last.op = "add" /\ last.ret = PICOZIP_OK) =>
        LET rec == last.arg
            n   == Len(rec.content)
            streamed(chunks) ==
                [PopulateEntry(rec.path, rec.mod_time, rec.comment, Len(rec.comment),
                               PICOZIP__FLAG_DATADESC, Zero32, 0, last.pre.offset)
                    EXCEPT !.crc32 = Not32(CrcChunks(PICOZIP__CRC_START, chunks)),
                           !.comp_size = Len(Concat(chunks)),
                           !.uncomp_size = Len(Concat(chunks))]
            cuts == IF n <= 12 THEN 0 .. n ELSE {}
            chunkings ==
                { <<SubSeq(rec.content, 1, p), SubSeq(rec.content, p + 1, q),
                    SubSeq(rec.content, q + 1, r), SubSeq(rec.content, r + 1, n)>> :
                  p \in cuts, q \in cuts, r \in cuts }
        IN  \A known \in {PopulateEntry(rec.path, rec.mod_time, rec.comment,
                                         Len(rec.comment), 0,
                                         Not32(picozip__crc32(rec.content, PICOZIP__CRC_START)),
                                         n, last.pre.offset)},
               read \in {streamed(Chunks(rec.content))} :
            \A k \in {Concat(CentralWrites(known))} :
                /\ entries.data[num_entries] # Garbage =>
                       entries.data[num_entries] = IF rec.streamed THEN read ELSE known
                /\ \A e \in {read} \cup {streamed(chunks) :
                                            chunks \in {c \in chunkings : Concat(c) = rec.content}} :
                       \A s \in {Concat(CentralWrites(e))} :
                           /\ SubSeq(s, 17, 20) = SubSeq(k, 17, 20)
                           /\ SubSeq(s, 21, 24) = SubSeq(k, 21, 24)
                           /\ SubSeq(s, 25, 28) = SubSeq(k, 25, 28)
                           /\ Len(s) = Len(k)
                           /\ \A i \in 1 .. Len(k) : i # 9 => s[i] = k[i]
                           /\ s[9] = PICOZIP__FLAG_DATADESC
                           /\ k[9] = 0

\* the file "big" has just been added with the streamed protocol, in two reads, and
\* the ledger holds its entry with the checksum of all its bytes
StreamedInTwoReads ==
    /\ last.op = "add"
    /\ last.ret = PICOZIP_OK
    /\ last.arg.streamed
    /\ Len(Chunks(last.arg.content)) = 2
    /\ num_entries = 1
    /\ entries.data[1].flags = PICOZIP__FLAG_DATADESC
    /\ entries.data[1].uncomp_size = PICOZIP_READ_BUF + 5
    /\ entries.data[1].crc32 = Not32(picozip__crc32(last.arg.content, PICOZIP__CRC_START))

(* ---------------------------------------------------------------------- *)
(* Rolling back a failed add                                               *)
(* ---------------------------------------------------------------------- *)
\* C31: the rollback of a failed add releases exactly the entry record that this
\* add allocated: picozip__free_last_entry passes to the free callback the pointer
\* at index num_entries - 1 as counted before the decrement, never a slot at or
\* beyond num_entries, so that the record of the failed add is not left allocated
\* outside the ledger.
RollbackFreesOwnEntry ==
    (last.op = "add" /\ last.ret = PICOZIP_EIO) =>
        /\ last.arg.freed_slot = last.pre.num_entries
        /\ last.arg.freed_slot < num_entries + 1
        /\ num_entries = last.pre.num_entries

(* ---------------------------------------------------------------------- *)
(* Room in the pointer array                                               *)
(* ---------------------------------------------------------------------- *)
\* C32: after any sequence of add-entry calls the ledger's pointer array has been
\* allocated with room for at least num_entries pointers: no entry pointer was
\* stored outside the capacity that picozip__vec_alloc obtained (so no add dies of
\* such a store), and the pointers of all earlier entries are still in the array.
LedgerHasRoom ==
    /\ num_entries * PtrSize <= entries.cap
    /\ last.op = "add" => ~crashed
    /\ \A i \in 1 .. num_entries : entries.data[i] # Garbage

(* ---------------------------------------------------------------------- *)
(* The read loop of a streamed add                                         *)
(* ---------------------------------------------------------------------- *)
\* C33: a streamed add reads the source in chunks of at most PICOZIP_READ_BUF bytes
\* and stops after the first read that returns fewer bytes than the buffer size (a
\* source of an exact multiple of the buffer size ends with one zero-length read);
\* for every finite source and a sink that accepts all writes it terminates with
\* PICOZIP_OK, the bytes written between header and data descriptor are the bytes
\* read, in order, and the descriptor's sizes equal their count.
StreamedInChunks ==
    last.op = "add" =>
        /\ ~crashed
        /\ last.ret = PICOZIP_OK
        /\ LET content == last.arg.content
               reads   == Chunks(content)
               from    == last.pre.sink_len + PICOZIP__LOCAL_HEADER_SIZE
                              + Len(last.arg.path) + PICOZIP__ATTR_SIZE
                              + PICOZIP__LOCAL_TIMESTAMP_SIZE
               desc    == SubSeq(sink, from + Len(content) + 1, Len(sink))
           IN  /\ \A i \in 1 .. Len(reads) - 1 : Len(reads[i]) = PICOZIP_READ_BUF
               /\ Len(reads[Len(reads)]) < PICOZIP_READ_BUF
               /\ Len(content) % PICOZIP_READ_BUF = 0 => reads[Len(reads)] = <<>>
               /\ Len(reads) = Len(content) \div PICOZIP_READ_BUF + 1
               /\ SubSeq(sink, from + 1, from + Len(content)) = Concat(reads)
               /\ Concat(reads) = content
               /\ Len(desc) = PICOZIP__DATADESC_SIZE
               /\ SubSeq(desc, 1, 4) = PICOZIP__DATADESC_MAGIC
               /\ SubSeq(desc, 9, 12) = WRITE_LE32(Len(content))
               /\ SubSeq(desc, 13, 16) = WRITE_LE32(Len(content))
               /\ offset = Len(sink)

(* ---------------------------------------------------------------------- *)
(* The entry counts of the end-of-central-directory record                 *)
(* ---------------------------------------------------------------------- *)
\* C34: both entry-count fields of the end-of-central-directory record equal the
\* number of entries in the ledger, and so the number of central-directory records
\* emitted before it, for every number of entries a session accepts.
EocdCountsEntries ==
    last.op = "eocd" =>
        /\ Le16(SubSeq(last.ret, 9, 10)) = last.arg.num_entries
        /\ Le16(SubSeq(last.ret, 11, 12)) = last.arg.num_entries
        /\ Le32(SubSeq(last.ret, 13, 16)) = 56 * last.arg.num_entries

(* ---------------------------------------------------------------------- *)
(* The buffer of an in-memory session                                    *)
(* ---------------------------------------------------------------------- *)
\* C35: on an in-memory session, after every add-entry and finalize call, also one
\* in which a growth of the buffer failed, the size picozip_get_mem returns is the
\* write offset and the buffer is the bytes the sink accepted, in order; a write
\* whose growth fails accepts no byte, and the call returns PICOZIP_EIO.
MemHoldsWrites ==
    /\ picozip_get_mem.size = offset
    /\ picozip_get_mem.mem = sink
    /\ (last.op \in {"add", "end"} /\ last.arg.refused) =>
           /\ Len(sink) - last.pre.sink_len = offset - last.pre.offset
           /\ last.ret = PICOZIP_EIO

(* ---------------------------------------------------------------------- *)
(* The source file picozip_new_entry_path opens                            *)
(* ---------------------------------------------------------------------- *)
\* C36: picozip_new_entry_path closes the source file it opened before it returns,
\* on success and on every error path: no more source files are open after the call
\* than before it.
PathClosesSource == last.op = "add" => opened = 0

============================================================================
